---- MODULE Spec2Model ----
(***************************************************************************)
(* crypto-toolkit: AES-256-GCM helpers (aes-gcm.ts) over a platform        *)
(* WebCrypto provider.  The wrapper functions importKey, encrypt and       *)
(* decrypt are translated from the source; the provider (crypto.subtle,    *)
(* crypto.getRandomValues) is an external collaborator and is modelled by  *)
(* its contract: an AEAD with GCM's shape (CTR body, appended tag of       *)
(* tagLength/8 bytes, absent AAD = empty AAD) whose tag is a stand-in      *)
(* checksum over (key, iv, aad, body).                                     *)
(***************************************************************************)
EXTENDS Integers, Sequences, FiniteSets, TLC

VARIABLES
    rawKey,       \* the caller's key buffer handed to importKey
    rawKeyAtCall, \* its content at the moment importKey was called (ghost)
    importPc,     \* "idle" | "pending" | "done" | "failed"
    keyData,      \* the buffer importKey hands to the provider
    importResult, \* outcome of the last importKey call
    mutations,    \* number of caller writes to rawKey so far
    phase,        \* "start" | "encrypting" | "encrypted" | "decrypting" | "decrypted"
    enc,          \* the last encrypt call: arguments and outcome
    dec,          \* the last decrypt call: arguments and outcome
    providerLog,  \* provider operations invoked so far, in order
    derivations,  \* the deriveKeyFromPassword calls: arguments, position, outcome
    codec,        \* the encoders.ts calls made so far: arguments and results
    tasks,        \* concurrent encrypt-then-decrypt tasks: position, locals, results
    lastCaller,   \* the task whose call reached the provider last (ghost)
    wire,         \* the packed-message example: what was packed, unpacked, decrypted
    alias,        \* one encrypt call seen as buffers: who holds which, and the writes
    chain         \* two derivations, the keys imported from them, and their use

vars == <<rawKey, rawKeyAtCall, importPc, keyData, importResult, mutations,
          phase, enc, dec, providerLog, derivations, codec, tasks, lastCaller, wire,
          alias, chain>>

importVars == <<rawKey, rawKeyAtCall, importPc, keyData, importResult, mutations>>
cipherVars == <<phase, enc, dec>>
deriveVars == <<derivations>>
codecVars == <<codec>>
taskVars == <<tasks, lastCaller>>
wireVars == <<wire>>
aliasVars == <<alias>>
chainVars == <<chain>>
lateVars == <<taskVars, wireVars, aliasVars, chainVars>>

----------------------------------------------------------------------------
(* Optional arguments: <<>> is undefined, <<v>> is the value v.            *)

Absent == <<>>
Some(v) == <<v>>
\* JavaScript's  opt ?? dflt
OrElse(opt, dflt) == IF opt = Absent THEN dflt ELSE opt[1]

(* Outcomes of a call: a value, or the error it threw, with the provider   *)
(* operations the call invoked.                                            *)
Ok(v, calls) == [ok |-> TRUE, value |-> v, error |-> "", calls |-> calls]
Fail(e, calls) == [ok |-> FALSE, value |-> <<>>, error |-> e, calls |-> calls]

\* Error kinds of the spec and the errors the code raises for them.
InvalidKeyLength == "AES-GCM requires 32-byte key (AES-256)"
InvalidIvLength == "AES-GCM IV must be 12 bytes"
\* A provider failure (a DOMException OperationError): the spec's AuthenticationFailure.
OperationError == "OperationError"
DataError == "DataError"
InvalidCharacterError == "InvalidCharacterError"

----------------------------------------------------------------------------
(* Program constants.                                                      *)

DEFAULT_IV_BYTES == 12
DEFAULT_TAG_BITS == 128
AES256_KEY_BYTES == 32
\* deriveKeyFromPassword: the default of its iterations parameter, the bits it asks for
DefaultIterations == 150000
DerivedKeyBits == 256

----------------------------------------------------------------------------
(* Bytes.                                                                  *)

RECURSIVE XorBits(_, _, _)
XorBits(a, b, n) ==
    IF n = 0 THEN 0
    ELSE (((a % 2) + (b % 2)) % 2) + 2 * XorBits(a \div 2, b \div 2, n - 1)

Xor(a, b) == XorBits(a, b, 8)

RECURSIVE Pow2(_)
Pow2(n) == IF n = 0 THEN 1 ELSE 2 * Pow2(n - 1)

\* bytes[pos] ^= 1 << bit
FlipBit(bytes, pos, bit) == [bytes EXCEPT ![pos] = Xor(bytes[pos], Pow2(bit))]

----------------------------------------------------------------------------
(* The provider: crypto.subtle for AES-GCM, by its contract.               *)

ProviderKeyBits == {128, 192, 256}
ProviderTagLengths == {32, 64, 96, 104, 112, 120, 128}

RECURSIVE WeightedSum(_, _)
\* sum of s[i] * i over the first n bytes of s
WeightedSum(s, n) == IF n = 0 THEN 0 ELSE s[n] * n + WeightedSum(s, n - 1)

KeyDigest(k) == WeightedSum(k, Len(k))
IvDigest(iv) == WeightedSum(iv, Len(iv))

\* CTR mode: the same transformation encrypts and decrypts.
Keystream(k, iv, i) == (KeyDigest(k) + IvDigest(iv) + 7 * i) % 256
CtrXor(k, iv, data) == [i \in 1..Len(data) |-> Xor(data[i], Keystream(k, iv, i))]

RECURSIVE PolyHash(_, _)
PolyHash(s, n) ==
    IF n = 0 THEN 0 ELSE (PolyHash(s, n - 1) * 257 + s[n] + 1) % 65536

RECURSIVE Lane(_, _, _)
\* a checksum of s with odd weights, so that a change of one byte changes it
Lane(s, n, j) ==
    IF n = 0 THEN 0
    ELSE ((s[n] + 1) * ((2 * ((n * j) % 128)) + 1) + Lane(s, n - 1, j)) % 256

\* One byte that depends on the key, the iv, the aad and every body byte.
Blend(k, iv, aad, c) ==
    (KeyDigest(k) + IvDigest(iv) + PolyHash(aad, Len(aad)) + Len(aad)
       + Lane(c, Len(c), 0) + Len(c)) % 256

\* The full 16-byte tag over (key, iv, aad, body). As in GCM, every byte of
\* it depends on all four, so a truncated tag still covers them.
GcmTag(k, iv, aad, c) ==
    LET fields ==
          <<KeyDigest(k) % 256, (KeyDigest(k) \div 256) % 256, KeyDigest(k) \div 65536,
            IvDigest(iv) % 256, (IvDigest(iv) \div 256) % 256,
            Len(aad) % 256, PolyHash(aad, Len(aad)) % 256, PolyHash(aad, Len(aad)) \div 256,
            Len(c) % 256,
            Lane(c, Len(c), 1), Lane(c, Len(c), 2), Lane(c, Len(c), 3), Lane(c, Len(c), 4),
            Lane(c, Len(c), 5), Lane(c, Len(c), 6), Lane(c, Len(c), 7)>>
        blend == Blend(k, iv, aad, c)
    IN [j \in 1..16 |-> (fields[j] + blend) % 256]

\* crypto.subtle.importKey('raw', keyData, {name: 'AES-GCM'}, ...)
ProviderImportKey(bytes) ==
    IF Len(bytes) * 8 \in ProviderKeyBits
    THEN Ok([algorithm |-> "AES-GCM", material |-> bytes], <<"importKey">>)
    ELSE Fail(DataError, <<"importKey">>)

\* crypto.subtle.encrypt(params, key, data)
ProviderEncrypt(params, key, data) ==
    IF params.tagLength \notin ProviderTagLengths
    THEN Fail(OperationError, <<"encrypt">>)
    ELSE LET aad == OrElse(params.additionalData, <<>>)
             c == CtrXor(key.material, params.iv, data)
             tag == SubSeq(GcmTag(key.material, params.iv, aad, c), 1, params.tagLength \div 8)
         IN Ok(c \o tag, <<"encrypt">>)

\* crypto.subtle.decrypt(params, key, data)
ProviderDecrypt(params, key, data) ==
    IF params.tagLength \notin ProviderTagLengths
    THEN Fail(OperationError, <<"decrypt">>)
    ELSE LET tagBytes == params.tagLength \div 8 IN
         IF Len(data) < tagBytes
         THEN Fail(OperationError, <<"decrypt">>)
         ELSE LET aad == OrElse(params.additionalData, <<>>)
                  c == SubSeq(data, 1, Len(data) - tagBytes)
                  tag == SubSeq(data, Len(data) - tagBytes + 1, Len(data))
                  expected == SubSeq(GcmTag(key.material, params.iv, aad, c), 1, tagBytes)
              IN IF tag = expected
                 THEN Ok(CtrXor(key.material, params.iv, c), <<"decrypt">>)
                 ELSE Fail(OperationError, <<"decrypt">>)

\* The UTF-8 bytes of one Unicode scalar value.
Utf8Bytes(cp) ==
    IF cp < 128 THEN <<cp>>
    ELSE IF cp < 2048 THEN <<192 + (cp \div 64), 128 + (cp % 64)>>
    ELSE IF cp < 65536
         THEN <<224 + (cp \div 4096), 128 + ((cp \div 64) % 64), 128 + (cp % 64)>>
    ELSE <<240 + (cp \div 262144), 128 + ((cp \div 4096) % 64),
           128 + ((cp \div 64) % 64), 128 + (cp % 64)>>

IsHighSurrogate(u) == u \in 55296..56319
IsLowSurrogate(u) == u \in 56320..57343

RECURSIVE TextEncode(_)
\* new TextEncoder().encode(str), str a sequence of UTF-16 code units: a surrogate
\* pair is one scalar value, a surrogate without its partner becomes U+FFFD
TextEncode(str) ==
    IF str = <<>> THEN <<>>
    ELSE IF IsHighSurrogate(str[1]) /\ Len(str) >= 2 /\ IsLowSurrogate(str[2])
         THEN Utf8Bytes(65536 + ((str[1] - 55296) * 1024) + (str[2] - 56320))
                \o TextEncode(SubSeq(str, 3, Len(str)))
    ELSE IF IsHighSurrogate(str[1]) \/ IsLowSurrogate(str[1])
         THEN Utf8Bytes(65533) \o TextEncode(Tail(str))
    ELSE Utf8Bytes(str[1]) \o TextEncode(Tail(str))

\* the UTF-16 code units of one scalar value
Utf16Units(cp) ==
    IF cp < 65536 THEN <<cp>>
    ELSE <<55296 + ((cp - 65536) \div 1024), 56320 + ((cp - 65536) % 1024)>>

\* how many bytes follow the lead byte b of a UTF-8 sequence (-1: b is no lead)
Utf8Needed(b) ==
    IF b \in 194..223 THEN 1
    ELSE IF b \in 224..239 THEN 2
    ELSE IF b \in 240..244 THEN 3
    ELSE -1

\* the values the byte number k after the lead byte b may take
Utf8Continuation(b, k) ==
    IF k > 1 THEN 128..191
    ELSE IF b = 224 THEN 160..191
    ELSE IF b = 237 THEN 128..159
    ELSE IF b = 240 THEN 144..191
    ELSE IF b = 244 THEN 128..143
    ELSE 128..191

RECURSIVE Utf8Followers(_, _)
\* how many of the bytes after the lead byte bytes[1], from number k on, continue
\* its sequence
Utf8Followers(bytes, k) ==
    IF k > Utf8Needed(bytes[1]) \/ k + 1 > Len(bytes) THEN 0
    ELSE IF bytes[k + 1] \notin Utf8Continuation(bytes[1], k) THEN 0
    ELSE 1 + Utf8Followers(bytes, k + 1)

RECURSIVE Utf8Decode(_)
\* the UTF-8 decoder without error mode: a sequence that is cut short or wrong
\* gives U+FFFD and decoding goes on at the byte that did not fit
Utf8Decode(bytes) ==
    IF bytes = <<>> THEN <<>>
    ELSE IF bytes[1] < 128 THEN <<bytes[1]>> \o Utf8Decode(Tail(bytes))
    ELSE IF Utf8Needed(bytes[1]) = -1 THEN <<65533>> \o Utf8Decode(Tail(bytes))
    ELSE LET need == Utf8Needed(bytes[1])
             got == Utf8Followers(bytes, 1)
             rest == Utf8Decode(SubSeq(bytes, got + 2, Len(bytes)))
         IN IF got < need THEN <<65533>> \o rest
            ELSE IF need = 1
                 THEN <<((bytes[1] - 192) * 64) + (bytes[2] - 128)>> \o rest
            ELSE IF need = 2
                 THEN <<((bytes[1] - 224) * 4096) + ((bytes[2] - 128) * 64)
                          + (bytes[3] - 128)>> \o rest
            ELSE Utf16Units(((bytes[1] - 240) * 262144) + ((bytes[2] - 128) * 4096)
                              + ((bytes[3] - 128) * 64) + (bytes[4] - 128)) \o rest

\* new TextDecoder().decode(bytes): UTF-8, not fatal, and with the default
\* ignoreBOM = false a byte order mark EF BB BF at the start is dropped
TextDecode(bytes) ==
    IF Len(bytes) >= 3 /\ SubSeq(bytes, 1, 3) = <<239, 187, 191>>
    THEN Utf8Decode(SubSeq(bytes, 4, Len(bytes)))
    ELSE Utf8Decode(bytes)

\* crypto.subtle.importKey('raw', keyData, {name: 'PBKDF2'}, false, ['deriveBits']):
\* any byte string is a PBKDF2 base key
ProviderImportPbkdf2Key(bytes) ==
    Ok([algorithm |-> "PBKDF2", material |-> bytes], <<"importKey">>)

\* HMAC-SHA-256 takes a key of up to 64 bytes (the hash's block) padded with zero
\* bytes to the full block
HmacKey(material) == [i \in 1..64 |-> IF i <= Len(material) THEN material[i] ELSE 0]

RECURSIVE BlockDigest(_, _, _)
\* a checksum of block[lo..hi] in which every byte counts with its position
BlockDigest(block, lo, hi) ==
    IF lo = hi THEN ((block[lo] + 1) * ((lo * lo) + lo + 1)) % 65536
    ELSE LET mid == (lo + hi) \div 2
         IN (BlockDigest(block, lo, mid) + BlockDigest(block, mid + 1, hi)) % 65536

\* Stand-in for PBKDF2-HMAC-SHA-256 output: nbytes bytes, each depending on the
\* padded key, the salt and the iteration count.
Pbkdf2(material, salt, iterations, nbytes) ==
    LET k == BlockDigest(HmacKey(material), 1, 64)
        t == PolyHash(salt, Len(salt))
    IN [j \in 1..nbytes |->
          ((k * ((2 * j) + 1)) + (t * ((2 * j) + 3)) + (Len(salt) * j)
             + ((iterations % 65521) * (j + 5))) % 256]

\* crypto.subtle.deriveBits({name: 'PBKDF2', hash, salt, iterations}, baseKey, length)
ProviderDeriveBits(params, baseKey, length) ==
    IF params.iterations = 0 \/ length % 8 # 0
    THEN Fail(OperationError, <<"deriveBits">>)
    ELSE Ok(Pbkdf2(baseKey.material, params.salt, params.iterations, length \div 8),
            <<"deriveBits">>)

\* crypto.getRandomValues(array): every element of the array is overwritten with
\* the provider's next random bytes (entropy), and the same array is returned
ProviderGetRandomValues(array, entropy) == [i \in 1..Len(array) |-> entropy[i]]

----------------------------------------------------------------------------
(* The platform's btoa and atob. Text is a sequence of UTF-16 code units.  *)

\* the Base64 alphabet of RFC 4648: A-Z a-z 0-9 + /
Base64Char(i) ==
    IF i < 26 THEN 65 + i
    ELSE IF i < 52 THEN 97 + (i - 26)
    ELSE IF i < 62 THEN 48 + (i - 52)
    ELSE IF i = 62 THEN 43 ELSE 47

\* the value of a character of the alphabet, -1 for any other character
Base64Index(c) ==
    IF c \in 65..90 THEN c - 65
    ELSE IF c \in 97..122 THEN (c - 97) + 26
    ELSE IF c \in 48..57 THEN (c - 48) + 52
    ELSE IF c = 43 THEN 62
    ELSE IF c = 47 THEN 63
    ELSE -1

RECURSIVE Base64Encode(_)
\* three bytes to four characters; a last group of one or two bytes is padded
\* with '='
Base64Encode(bytes) ==
    IF Len(bytes) = 0 THEN <<>>
    ELSE IF Len(bytes) = 1
         THEN <<Base64Char(bytes[1] \div 4), Base64Char((bytes[1] % 4) * 16), 61, 61>>
    ELSE IF Len(bytes) = 2
         THEN <<Base64Char(bytes[1] \div 4),
                Base64Char(((bytes[1] % 4) * 16) + (bytes[2] \div 16)),
                Base64Char((bytes[2] % 16) * 4), 61>>
    ELSE <<Base64Char(bytes[1] \div 4),
           Base64Char(((bytes[1] % 4) * 16) + (bytes[2] \div 16)),
           Base64Char(((bytes[2] % 16) * 4) + (bytes[3] \div 64)),
           Base64Char(bytes[3] % 64)>>
           \o Base64Encode(SubSeq(bytes, 4, Len(bytes)))

\* btoa(binary): a code unit above 255 is refused
btoa(binary) ==
    IF \E i \in DOMAIN binary : binary[i] > 255
    THEN Fail(InvalidCharacterError, <<>>)
    ELSE Ok(Base64Encode(binary), <<>>)

\* TAB, LF, FF, CR, SPACE
IsAsciiWhitespace(c) == c \in {9, 10, 12, 13, 32}

RECURSIVE Base64Decode(_)
\* four characters to three bytes; a last group of two or three characters gives
\* one or two bytes and its left-over bits are dropped
Base64Decode(chars) ==
    IF Len(chars) < 2 THEN <<>>
    ELSE LET v1 == Base64Index(chars[1])
             v2 == Base64Index(chars[2])
         IN IF Len(chars) = 2 THEN <<(v1 * 4) + (v2 \div 16)>>
            ELSE LET v3 == Base64Index(chars[3])
                 IN IF Len(chars) = 3
                    THEN <<(v1 * 4) + (v2 \div 16), ((v2 % 16) * 16) + (v3 \div 4)>>
                    ELSE <<(v1 * 4) + (v2 \div 16), ((v2 % 16) * 16) + (v3 \div 4),
                           ((v3 % 4) * 64) + Base64Index(chars[4])>>
                           \o Base64Decode(SubSeq(chars, 5, Len(chars)))

\* atob(data), the forgiving decode: ASCII whitespace is dropped; if what is left
\* has a length divisible by 4, one or two '=' at its end are dropped; a length
\* of 1 mod 4 or a character outside the alphabet is then refused
atob(data) ==
    LET Kept(c) == ~IsAsciiWhitespace(c)
        stripped == SelectSeq(data, Kept)
        n == Len(stripped)
        pads == IF n % 4 # 0 \/ n = 0 THEN 0
                ELSE IF stripped[n] # 61 THEN 0
                ELSE IF stripped[n - 1] # 61 THEN 1 ELSE 2
        chars == SubSeq(stripped, 1, n - pads)
    IN IF Len(chars) % 4 = 1 \/ \E i \in DOMAIN chars : Base64Index(chars[i]) = -1
       THEN Fail(InvalidCharacterError, <<>>)
       ELSE Ok(Base64Decode(chars), <<>>)

----------------------------------------------------------------------------
(* aes-gcm.ts                                                              *)

\* slip: the length of an AES-128 key is asked for
KeyLengthSixteen(bytes) == Len(bytes) = 16

\* slip: every AES key size is let through
KeyLengthAnyAes(bytes) == Len(bytes) \in {16, 24, 32}

\* rawKey.length !== 32
KeyLengthOk(bytes) == Len(bytes) = AES256_KEY_BYTES

\* slip: only an iv that is too long is refused
IvLengthAtMost(iv) == Len(iv) <= DEFAULT_IV_BYTES

\* iv.length !== DEFAULT_IV_BYTES
IvLengthOk(iv) == Len(iv) = DEFAULT_IV_BYTES

\* slip: encrypt does not forward opts.tagLength
EncryptParamsDefaultTag(iv, opts) ==
    [name |-> "AES-GCM", iv |-> iv, additionalData |-> opts.aad,
     tagLength |-> DEFAULT_TAG_BITS]

\* the AesGcmParams encrypt builds
EncryptParams(iv, opts) ==
    [name |-> "AES-GCM", iv |-> iv, additionalData |-> opts.aad,
     tagLength |-> OrElse(opts.tagLength, DEFAULT_TAG_BITS)]

\* slip: decrypt does not forward opts.aad
DecryptParamsNoAad(iv, opts) ==
    [name |-> "AES-GCM", iv |-> iv, additionalData |-> Absent,
     tagLength |-> OrElse(opts.tagLength, DEFAULT_TAG_BITS)]

\* slip: decrypt does not forward opts.tagLength
DecryptParamsDefaultTag(iv, opts) ==
    [name |-> "AES-GCM", iv |-> iv, additionalData |-> opts.aad,
     tagLength |-> DEFAULT_TAG_BITS]

\* slip: decrypt checks the caller's iv but hands the provider a fixed one
DecryptParamsFixedIv(iv, opts) ==
    [name |-> "AES-GCM", iv |-> [i \in 1..DEFAULT_IV_BYTES |-> 1],
     additionalData |-> opts.aad,
     tagLength |-> OrElse(opts.tagLength, DEFAULT_TAG_BITS)]

\* the AesGcmParams decrypt builds
DecryptParams(iv, opts) ==
    [name |-> "AES-GCM", iv |-> iv, additionalData |-> opts.aad,
     tagLength |-> OrElse(opts.tagLength, DEFAULT_TAG_BITS)]

\* slip: the nonce buffer is allocated with the AES block size, 16 bytes
randomIvBlockSized(entropy) ==
    ProviderGetRandomValues([i \in 1..16 |-> 0], entropy)

\* randomIv(): a new DEFAULT_IV_BYTES buffer, filled by the provider
randomIv(entropy) ==
    ProviderGetRandomValues([i \in 1..DEFAULT_IV_BYTES |-> 0], entropy)

\* slip: encrypt always draws its own iv and ignores opts.iv
encryptFreshIv(key, plaintext, opts, random) ==
    LET ct == ProviderEncrypt(EncryptParams(random, opts), key, plaintext)
    IN IF ct.ok
       THEN Ok([iv |-> random, ciphertext |-> ct.value], <<"getRandomValues">> \o ct.calls)
       ELSE Fail(ct.error, <<"getRandomValues">> \o ct.calls)

\* slip: encrypt checks tagLength against the documented values and throws its
\* own error before the provider is called
encryptChecksTagLength(key, plaintext, opts, random) ==
    LET iv == OrElse(opts.iv, random)
        drawn == IF opts.iv = Absent THEN <<"getRandomValues">> ELSE <<>>
    IN IF ~IvLengthOk(iv)
       THEN Fail(InvalidIvLength, drawn)
       ELSE IF OrElse(opts.tagLength, DEFAULT_TAG_BITS) \notin {96, 104, 112, 120, 128}
       THEN Fail("AES-GCM tagLength must be 96, 104, 112, 120 or 128", drawn)
       ELSE LET ct == ProviderEncrypt(EncryptParams(iv, opts), key, plaintext)
            IN IF ct.ok
               THEN Ok([iv |-> iv, ciphertext |-> ct.value], drawn \o ct.calls)
               ELSE Fail(ct.error, drawn \o ct.calls)

\* slip: the result is a view of the first plaintext.length bytes of what the
\* provider returned, which leaves the tag out
encryptDropsTag(key, plaintext, opts, random) ==
    LET iv == OrElse(opts.iv, random)
        drawn == IF opts.iv = Absent THEN <<"getRandomValues">> ELSE <<>>
    IN IF ~IvLengthOk(iv)
       THEN Fail(InvalidIvLength, drawn)
       ELSE LET ct == ProviderEncrypt(EncryptParams(iv, opts), key, plaintext)
            IN IF ct.ok
               THEN Ok([iv |-> iv, ciphertext |-> SubSeq(ct.value, 1, Len(plaintext))],
                       drawn \o ct.calls)
               ELSE Fail(ct.error, drawn \o ct.calls)

\* slip: the provider's bytes are copied over the caller's plaintext buffer and
\* that buffer is returned
NewCiphertextOverPlaintext(ct) == [buffer |-> "plaintext", bytes |-> ct]

\* new Uint8Array(ct): a view of the whole ArrayBuffer ct, which the provider
\* allocated for this result
NewCiphertext(ct) == [buffer |-> "ct", bytes |-> ct]

\* encrypt(key, plaintext, opts); random is what randomIv() returns if it is called
encrypt(key, plaintext, opts, random) ==
    LET iv == OrElse(opts.iv, random)
        drawn == IF opts.iv = Absent THEN <<"getRandomValues">> ELSE <<>>
    IN IF ~IvLengthOk(iv)
       THEN Fail(InvalidIvLength, drawn)
       ELSE LET ct == ProviderEncrypt(EncryptParams(iv, opts), key, plaintext)
            IN IF ct.ok
               THEN Ok([iv |-> iv, ciphertext |-> ct.value], drawn \o ct.calls)
               ELSE Fail(ct.error, drawn \o ct.calls)

\* slip: a provider failure is swallowed and the input comes back as the result
decryptFailOpen(key, iv, ciphertext, opts) ==
    IF Len(iv) # DEFAULT_IV_BYTES
    THEN Fail(InvalidIvLength, <<>>)
    ELSE LET pt == ProviderDecrypt(
                       [name |-> "AES-GCM", iv |-> iv, additionalData |-> opts.aad,
                        tagLength |-> OrElse(opts.tagLength, DEFAULT_TAG_BITS)],
                       key, ciphertext)
         IN IF pt.ok THEN pt ELSE Ok(ciphertext, pt.calls)

\* slip: decrypt rethrows a provider failure under a message that quotes the iv
decryptQuotesIv(key, iv, ciphertext, opts) ==
    IF Len(iv) # DEFAULT_IV_BYTES
    THEN Fail(InvalidIvLength, <<>>)
    ELSE LET pt == ProviderDecrypt(
                       [name |-> "AES-GCM", iv |-> iv, additionalData |-> opts.aad,
                        tagLength |-> OrElse(opts.tagLength, DEFAULT_TAG_BITS)],
                       key, ciphertext)
         IN IF pt.ok
            THEN pt
            ELSE Fail(IF iv[DEFAULT_IV_BYTES] = 0
                      THEN "AES-GCM decrypt failed (iv ends 00)"
                      ELSE "AES-GCM decrypt failed (iv ends otherwise)", pt.calls)

\* decrypt(key, iv, ciphertext, opts)
decrypt(key, iv, ciphertext, opts) ==
    IF ~IvLengthOk(iv)
    THEN Fail(InvalidIvLength, <<>>)
    ELSE ProviderDecrypt(DecryptParams(iv, opts), key, ciphertext)

\* slip: no copy, the provider is handed the caller's own buffer
SliceShared(bytes) == [shared |-> TRUE, bytes |-> bytes]

\* slip: a new buffer of the right length whose content is never filled in
SliceZeroed(bytes) == [shared |-> FALSE, bytes |-> [i \in 1..Len(bytes) |-> 0]]

\* rawKey.slice(): a new buffer holding a copy of the bytes; "shared" says
\* whether the buffer is the caller's own (a later caller write shows through)
Slice(bytes) == [shared |-> FALSE, bytes |-> bytes]

\* slip: the salt is left out of the parameters, PBKDF2 runs on an empty one
DeriveBitsParamsNoSalt(saltBuf, iterations) ==
    [name |-> "PBKDF2", hash |-> "SHA-256", salt |-> <<>>, iterations |-> iterations]

\* slip: the iteration count is always the default, whatever the caller gave
DeriveBitsParamsFixedIterations(saltBuf, iterations) ==
    [name |-> "PBKDF2", hash |-> "SHA-256", salt |-> saltBuf,
     iterations |-> DefaultIterations]

\* the Pbkdf2Params deriveKeyFromPassword builds
DeriveBitsParams(saltBuf, iterations) ==
    [name |-> "PBKDF2", hash |-> "SHA-256", salt |-> saltBuf, iterations |-> iterations]

\* importKey(rawKey), from call to settled promise with no caller step between
importKey(bytes) ==
    IF ~KeyLengthOk(bytes)
    THEN Fail(InvalidKeyLength, <<>>)
    ELSE ProviderImportKey(Slice(bytes).bytes)

----------------------------------------------------------------------------
(* encoders.ts                                                             *)

\* A JavaScript value as bytesToUtf8 sees it: its type, and for an ArrayBuffer or
\* a view the buffer's bytes and the window the view has on them.
JsValue(type) == [type |-> type, buffer |-> <<>>, byteOffset |-> 0, byteLength |-> 0]
ArrayBufferOf(bytes) ==
    [type |-> "ArrayBuffer", buffer |-> bytes, byteOffset |-> 0, byteLength |-> Len(bytes)]
ViewOf(type, bytes, byteOffset, byteLength) ==
    [type |-> type, buffer |-> bytes, byteOffset |-> byteOffset,
     byteLength |-> byteLength]
\* bytes instanceof ArrayBuffer, ArrayBuffer.isView(bytes)
IsArrayBuffer(x) == x.type = "ArrayBuffer"
IsView(x) == x.type \in {"Uint8Array", "Uint16Array", "DataView"}

InvalidInputType == "bytesToUtf8 expects ArrayBuffer or ArrayBufferView"

\* utf8ToBytes(str)
utf8ToBytes(str) == Ok(TextEncode(str), <<"encode">>)

\* slip: the check is typeof bytes !== 'object', which lets a plain object and
\* null through to a Uint8Array of no bytes
bytesToUtf8TypeofObject(x) ==
    IF x.type \in {"number", "boolean", "string", "undefined"}
    THEN Fail(InvalidInputType, <<>>)
    ELSE Ok(TextDecode(SubSeq(x.buffer, x.byteOffset + 1, x.byteOffset + x.byteLength)),
            <<"decode">>)

\* bytesToUtf8(bytes): the type check, a Uint8Array over the same bytes, decode
bytesToUtf8(x) ==
    IF ~IsArrayBuffer(x) /\ ~IsView(x)
    THEN Fail(InvalidInputType, <<>>)
    ELSE LET u8 == IF IsArrayBuffer(x)
                   THEN x.buffer
                   ELSE SubSeq(x.buffer, x.byteOffset + 1, x.byteOffset + x.byteLength)
         IN Ok(TextDecode(u8), <<"decode">>)

\* target.set(source, offset) on typed arrays, as the target's new content
TypedArraySet(target, source, offset) ==
    [i \in 1..Len(target) |->
       IF i > offset /\ i <= offset + Len(source) THEN source[i - offset] ELSE target[i]]

\* slip: b is written at offset b.length instead of a.length
concatBytesWrongOffset(a, b) ==
    LET out == [i \in 1..(Len(a) + Len(b)) |-> 0]
    IN [out |-> TypedArraySet(TypedArraySet(out, a, 0), b, Len(b)), a |-> a, b |-> b]

\* concatBytes(a, b): a new zeroed array, a written at 0, b written at a.length.
\* out is the array returned; a and b are the operands' content after the call,
\* which writes to out only
concatBytes(a, b) ==
    LET out == [i \in 1..(Len(a) + Len(b)) |-> 0]
    IN [out |-> TypedArraySet(TypedArraySet(out, a, 0), b, Len(a)), a |-> a, b |-> b]

\* slip: the binary string is built from the low seven bits of each byte
toBase64SevenBit(bytes) ==
    btoa([i \in 1..Len(bytes) |-> bytes[i] % 128])

\* slip: the padding is cut off the encoded text
toBase64Unpadded(bytes) ==
    LET b64 == btoa([i \in 1..Len(bytes) |-> bytes[i]])
        IsNotPad(c) == c # 61
    IN Ok(SelectSeq(b64.value, IsNotPad), <<>>)

\* toBase64(bytes): one code unit per byte (String.fromCharCode), then btoa
toBase64(bytes) ==
    btoa([i \in 1..Len(bytes) |-> bytes[i]])

\* slip: a text atob refuses decodes to no bytes
fromBase64Lenient(b64) ==
    LET binary == atob(b64)
    IN IF binary.ok THEN binary ELSE Ok(<<>>, <<>>)

\* fromBase64(b64): atob, then one byte per code unit (charCodeAt into a
\* Uint8Array); what atob throws is what the caller gets
fromBase64(b64) ==
    LET binary == atob(b64)
    IN IF ~binary.ok
       THEN binary
       ELSE Ok([i \in 1..Len(binary.value) |-> binary.value[i] % 256], <<>>)

RECURSIVE PaddingStart(_, _)
\* while (end > 0 && b64.charCodeAt(end - 1) === 61) end--
PaddingStart(b64, end) ==
    IF end > 0 /\ b64[end] = 61 THEN PaddingStart(b64, end - 1) ELSE end

\* slip: '/' is left as it is
toBase64UrlKeepsSlash(bytes) ==
    LET b64 == toBase64(bytes).value
        noPad == SubSeq(b64, 1, PaddingStart(b64, Len(b64)))
    IN Ok([i \in 1..Len(noPad) |-> IF noPad[i] = 43 THEN 45 ELSE noPad[i]], <<>>)

\* toBase64Url(bytes): toBase64 without its trailing '=', '+' as '-', '/' as '_'
toBase64Url(bytes) ==
    LET b64 == toBase64(bytes)
    IN IF ~b64.ok
       THEN b64
       ELSE LET noPad == SubSeq(b64.value, 1, PaddingStart(b64.value, Len(b64.value)))
            IN Ok([i \in 1..Len(noPad) |->
                     IF noPad[i] = 43 THEN 45
                     ELSE IF noPad[i] = 47 THEN 95 ELSE noPad[i]], <<>>)

\* slip: the padding is sliced at length % 4
Base64UrlPaddedByRemainder(b64url) ==
    [i \in 1..Len(b64url) |->
       IF b64url[i] = 45 THEN 43 ELSE IF b64url[i] = 95 THEN 47 ELSE b64url[i]]
    \o SubSeq(<<61, 61, 61>>, (Len(b64url) % 4) + 1, 3)

\* slip: '-' and '_' are handed on as they are
Base64UrlPaddedUntranslated(b64url) ==
    b64url \o SubSeq(<<61, 61, 61>>, ((Len(b64url) + 3) % 4) + 1, 3)

\* the text fromBase64Url hands to fromBase64: '-' as '+', '_' as '/', followed
\* by '==='.slice((length + 3) % 4)
Base64UrlPadded(b64url) ==
    [i \in 1..Len(b64url) |->
       IF b64url[i] = 45 THEN 43 ELSE IF b64url[i] = 95 THEN 47 ELSE b64url[i]]
    \o SubSeq(<<61, 61, 61>>, ((Len(b64url) + 3) % 4) + 1, 3)

\* fromBase64Url(b64url)
fromBase64Url(b64url) == fromBase64(Base64UrlPadded(b64url))

\* String.prototype.split(separator) on a one-character separator: the fields
\* between the separators, one more than there are separators
RECURSIVE Split(_, _)
Split(str, sep) ==
    IF \A i \in 1..Len(str) : str[i] # sep
    THEN <<str>>
    ELSE LET at == CHOOSE i \in 1..Len(str) :
                       str[i] = sep /\ \A j \in 1..(i - 1) : str[j] # sep
         IN <<SubSeq(str, 1, at - 1)>> \o Split(SubSeq(str, at + 1, Len(str)), sep)

----------------------------------------------------------------------------
(* The packed message of the usage example.                                *)

\* '.'
FieldSeparator == 46

\* slip: the ciphertext is written first
PackCiphertextFirst(iv, ciphertext) ==
    toBase64Url(ciphertext).value \o <<FieldSeparator>> \o toBase64Url(iv).value

\* `${toBase64Url(iv)}.${toBase64Url(ciphertext)}`
Pack(iv, ciphertext) ==
    toBase64Url(iv).value \o <<FieldSeparator>> \o toBase64Url(ciphertext).value

\* const [ivB64, ctB64] = packed.split('.'): a name with no field is undefined
Unpack(packed) ==
    LET fields == Split(packed, FieldSeparator)
    IN [fields |-> fields,
        ivB64 |-> IF Len(fields) >= 1 THEN Some(fields[1]) ELSE Absent,
        ctB64 |-> IF Len(fields) >= 2 THEN Some(fields[2]) ELSE Absent]

----------------------------------------------------------------------------
(* Inputs.                                                                 *)

MaxMutations == 2
MaxPlaintextLen == 2

Bytes(n, b) == [i \in 1..n |-> b]

KeyA == Bytes(32, 17)
\* differs from KeyA in one bit of the last byte
KeyB == [Bytes(32, 17) EXCEPT ![32] = 16]
RawKeys == {KeyA, KeyB, <<>>, Bytes(16, 17), Bytes(24, 17), Bytes(31, 17), Bytes(33, 17)}

\* where and what the caller writes into its key buffer
MutatePositions == {1, 32}
MutateValues == {16, 255}

\* the raw keys importKey admits; the Key of r is importKey(r).value
AdmittedRawKeys == { r \in RawKeys : importKey(r).ok }

IvA == Bytes(12, 1)
\* differs from IvA in one bit of the last byte
IvB == [Bytes(12, 1) EXCEPT ![12] = 0]
IvChoices == {IvA, IvB, Bytes(8, 0), Bytes(13, 1)}
\* what the provider's random source yields next, 16 bytes of it: once the bytes
\* of IvB, once the bytes of a nonce no caller passes
Entropies == {[i \in 1..16 |-> IF i = 12 THEN 0 ELSE 1], [i \in 1..16 |-> 200 + i]}

\* plaintexts of every length up to MaxPlaintextLen: <<>>, <<0>>, <<0, 85>>, ...
Plaintext(n) == [i \in 1..n |-> ((i - 1) * 85) % 256]
Plaintexts == { Plaintext(n) : n \in 0..MaxPlaintextLen }
AadChoices == {Absent, Some(<<>>), Some(<<5>>), Some(<<5, 6>>)}
\* the five documented tag lengths, one the provider also takes, one it refuses
TagLengthChoices == {Absent, Some(96), Some(104), Some(112), Some(120), Some(128),
                     Some(64), Some(100)}

EncryptOptions ==
    [iv : {Absent} \cup {Some(i) : i \in IvChoices}, aad : AadChoices,
     tagLength : TagLengthChoices]

MaxBytesLen == 3
MaxTextLen == 4

\* byte strings to encode: every single byte, every string up to MaxBytesLen over
\* a few bytes (251, 255 and 239 encode to '+' and '/'), and the tests' literals
ByteSamples == {0, 1, 239, 251, 255}
ByteStrings ==
    { <<b>> : b \in 0..255 }
    \cup UNION { [1..n -> ByteSamples] : n \in 0..MaxBytesLen }
    \cup {<<1, 2>>, <<1, 2, 3>>, <<251, 239, 190>>}

\* texts to decode: every text up to MaxTextLen over A Q = % SPACE + - _ /, and
\* the tests' malformed texts "%%%" and "###", with two of five characters
TextChars == {65, 81, 61, 37, 32, 43, 45, 95, 47}
Texts ==
    UNION { [1..n -> TextChars] : n \in 0..MaxTextLen }
    \cup {<<37, 37, 37>>, <<35, 35, 35>>, <<65, 81, 73, 68, 65>>, <<65, 81, 73, 68, 10>>}

ConcatOperands == {<<>>, <<1>>, <<2, 3>>, <<255, 0, 7>>}

MaxStrLen == 2
\* texts to encode, as UTF-16 code units: every text up to MaxStrLen over NUL, a,
\* e-acute, hiragana KO, U+FEFF and the two halves of U+1F30D, and longer ones
\* that start with U+FEFF or hold the whole pair
StrUnits == {0, 97, 233, 12371, 65279, 55356, 57101}
Strings ==
    UNION { [1..n -> StrUnits] : n \in 0..MaxStrLen }
    \cup {<<65279, 97, 98>>, <<97, 55356, 57101>>, <<65279, 55356, 57101>>,
          <<97, 65279, 98>>}

\* what the tests hand to bytesToUtf8 that is no byte sequence, and byte
\* sequences of every kind: 'a', e-acute, U+1F30D, a byte order mark and 'a',
\* bytes that are not UTF-8
JsNonBytes ==
    { JsValue(t) : t \in {"number", "boolean", "object", "string", "null",
                          "undefined", "Array"} }
Utf8Samples ==
    {<<>>, <<97>>, <<195, 169>>, <<240, 159, 140, 141>>, <<239, 187, 191, 97>>,
     <<226, 130, 65>>, <<255, 97>>, <<237, 160, 128>>}
JsBytes ==
    { ArrayBufferOf(b) : b \in Utf8Samples }
    \cup { ViewOf(t, b, 0, Len(b)) : t \in {"Uint8Array", "DataView"}, b \in Utf8Samples }
    \cup { ViewOf("Uint8Array", <<0>> \o b \o <<0>>, 1, Len(b)) : b \in Utf8Samples }
    \cup { ViewOf("Uint16Array", <<97, 0>>, 0, 2) }

MaxWrites == 2
\* the buffers of one encrypt call: the caller's four, and the ArrayBuffer the
\* provider allocates for its result
CallerBuffers == {"rawKey", "plaintext", "iv", "aad"}
BufferNames == CallerBuffers \cup {"ct"}
\* the names the caller can write through once encrypt has returned
WritableNames == CallerBuffers \cup {"result.iv", "result.ciphertext"}
\* the aad buffers the caller passes
AadBuffers == {<<5>>, <<5, 6>>}

\* 12-byte ivs to pack: the callers' two, what randomIv() draws, and ones whose
\* Base64 holds '+' and '/'
WireIvs ==
    {IvA, IvB, Bytes(12, 251), Bytes(12, 255)} \cup { randomIv(e) : e \in Entropies }
\* ciphertexts that come from elsewhere than encrypt: every byte string to encode
WireCiphertexts == ByteStrings

MaxTasks == 2
\* the concurrent tasks of the stress test, numbered as the test numbers them
TaskIds == 1..MaxTasks
\* the key the tasks share
SharedKey == importKey(KeyA).value
\* task t's own plaintext, of n bytes ('concurrent-' + t in the test)
TaskPlaintext(t, n) == [i \in 1..n |-> (16 * t + i) % 256]
\* the lengths it takes: the shortest and the longest
TaskPlaintextLens == {1, MaxPlaintextLen}
\* what the random source yields for task t's randomIv()
TaskEntropies(t) == { [i \in 1..16 |-> (e[i] + t) % 256] : e \in Entropies }
\* the task passes its iv and nothing else
TaskEncryptOptions(iv) == [iv |-> Some(iv), aad |-> Absent, tagLength |-> Absent]
TaskDecryptOptions == [aad |-> Absent, tagLength |-> Absent]

\* the two deriveKeyFromPassword calls a caller compares
DeriveCalls == {"first", "second"}
\* passwords as UTF-16 code units: "a", "a" followed by U+0000, "b", a high
\* surrogate alone, a low surrogate alone, the pair U+1F600
Passwords == {<<97>>, <<97, 0>>, <<98>>, <<55296>>, <<56320>>, <<55357, 56832>>}
Salts == {<<1>>, <<2>>, <<1, 2, 3>>}
IterationChoices == {Absent, Some(1), Some(150000), Some(0)}

\* the two derivations whose keys are used together, in the order their bytes
\* are imported
ChainOrder == <<"first", "second">>

\* the iv encrypt call e worked with: the caller's as it was at the call, or the
\* one the call drew and returned
IvUsedBy(e) == IF e.opts.iv # Absent THEN e.opts.iv[1] ELSE e.outcome.value.iv

\* decrypt of what e returned, with the arguments e was called with
HonestDecrypt(e) ==
    [raw |-> e.raw, iv |-> IvUsedBy(e),
     ciphertext |-> e.outcome.value.ciphertext,
     opts |-> [aad |-> e.opts.aad, tagLength |-> e.opts.tagLength],
     flipped |-> Absent]

\* the options decrypt is given after encrypt call e: e's own aad and tagLength,
\* none, an empty and a one-byte aad, the tag lengths 96 and 128 and one the
\* provider refuses
DecryptOptionsAfter(e) ==
    [aad : {e.opts.aad, Absent, Some(<<>>), Some(<<5>>)},
     tagLength : {e.opts.tagLength, Absent, Some(96), Some(128), Some(100)}]

\* the decrypt calls tried after encrypt call e: any key, iv and options on the
\* ciphertext as returned, and every single-bit flip of it under e's arguments
\* (flipped is the byte and the bit the caller flipped, if any)
DecryptCalls(e) ==
    { [raw |-> r, iv |-> i, ciphertext |-> e.outcome.value.ciphertext, opts |-> o,
       flipped |-> Absent] :
        r \in AdmittedRawKeys, i \in IvChoices \cup {e.outcome.value.iv},
        o \in DecryptOptionsAfter(e) }
    \cup { [HonestDecrypt(e) EXCEPT
              !.ciphertext = FlipBit(e.outcome.value.ciphertext, pos, bit),
              !.flipped = Some(<<pos, bit>>)] :
             pos \in 1..Len(e.outcome.value.ciphertext), bit \in 0..7 }

----------------------------------------------------------------------------
(* State machine.                                                          *)

NoCall == <<>>
NoResult == Fail("", <<>>)
\* no encoders.ts function called yet
NoCodecCall ==
    [pc |-> "start", bytes |-> <<>>, encoded |-> NoResult, given |-> <<>>,
     handed |-> <<>>, decoded |-> NoResult, operands |-> <<>>, after |-> <<>>,
     joined |-> <<>>, arg |-> JsValue("undefined")]
\* a deriveKeyFromPassword call not made yet
NotDerived ==
    [pc |-> "idle", password |-> <<>>, salt |-> <<>>, saltAtCall |-> <<>>,
     given |-> Absent, iterations |-> 0, encoded |-> <<>>, baseKey |-> Absent,
     params |-> Absent, outcome |-> NoResult]

\* no derived key imported yet
NoChain ==
    [pc |-> "start", imported |-> <<>>, plaintext |-> <<>>, inflight |-> Absent,
     encrypted |-> NoResult, link |-> 0, decrypted |-> NoResult]

\* the caller's buffers before it has filled them, and no result
NoBuffers ==
    [pc |-> "start", buffers |-> [n \in BufferNames |-> <<>>],
     atCall |-> [n \in BufferNames |-> <<>>], inflight |-> Absent, returned |-> <<>>,
     result |-> [iv |-> "", ciphertext |-> ""], written |-> {}, decrypted |-> NoResult]

\* nothing packed yet
NoMessage ==
    [pc |-> "start", origin |-> "", plaintext |-> <<>>, iv |-> <<>>,
     ciphertext |-> <<>>, packed |-> <<>>, fields |-> <<>>, iv2 |-> NoResult,
     ct2 |-> NoResult, inflight |-> Absent, decrypted |-> NoResult]

\* a task that has not started
NoTask ==
    [pc |-> "idle", plaintext |-> <<>>, iv |-> <<>>, request |-> Absent,
     encrypted |-> NoResult, decrypted |-> NoResult, overlapped |-> FALSE]

Init ==
    /\ rawKey \in RawKeys
    /\ rawKeyAtCall = <<>>
    /\ importPc = "idle"
    /\ keyData = Slice(<<>>)
    /\ importResult = NoResult
    /\ mutations = 0
    /\ phase = "start"
    /\ enc = NoCall
    /\ dec = NoCall
    /\ providerLog = <<>>
    /\ derivations = [t \in DeriveCalls |-> NotDerived]
    /\ codec = NoCodecCall
    /\ tasks = [t \in TaskIds |-> NoTask]
    /\ lastCaller = 0
    /\ wire = NoMessage
    /\ alias = NoBuffers
    /\ chain = NoChain

\* importKey up to its await: the length check, the copy, the provider call
ImportKeyCall ==
    /\ importPc = "idle"
    /\ rawKeyAtCall' = rawKey
    /\ IF ~KeyLengthOk(rawKey)
       THEN /\ importPc' = "failed"
            /\ importResult' = Fail(InvalidKeyLength, <<>>)
            /\ UNCHANGED <<keyData, providerLog>>
       ELSE /\ importPc' = "pending"
            /\ keyData' = Slice(rawKey)
            /\ providerLog' = Append(providerLog, "importKey")
            /\ UNCHANGED importResult
    /\ UNCHANGED <<rawKey, mutations, cipherVars, deriveVars, codecVars, lateVars>>

\* the provider finishes the import from the buffer it was handed
ImportKeySettle ==
    /\ importPc = "pending"
    /\ importResult' = ProviderImportKey(keyData.bytes)
    /\ importPc' = IF importResult'.ok THEN "done" ELSE "failed"
    /\ UNCHANGED <<rawKey, rawKeyAtCall, keyData, mutations, cipherVars, providerLog,
                   deriveVars, codecVars, lateVars>>

\* the caller writes a byte of its key buffer
MutateRawKey ==
    /\ mutations < MaxMutations
    /\ \E pos \in MutatePositions, b \in MutateValues :
         /\ pos <= Len(rawKey)
         /\ rawKey[pos] # b
         /\ rawKey' = [rawKey EXCEPT ![pos] = b]
         /\ keyData' = IF keyData.shared /\ importPc = "pending"
                       THEN [keyData EXCEPT !.bytes = rawKey']
                       ELSE keyData
    /\ mutations' = mutations + 1
    /\ UNCHANGED <<rawKeyAtCall, importPc, importResult, cipherVars, providerLog,
                   deriveVars, codecVars, lateVars>>

\* the call reached the provider's operation op, which is what it awaits
Awaits(inflight, op) ==
    inflight.calls # <<>> /\ inflight.calls[Len(inflight.calls)] = op

\* return { iv, ciphertext }: the iv returned is the object encrypt worked with,
\* the caller's own when opts.iv was given, holding what the caller's buffer
\* holds when the promise settles
ResultOfEncrypt(inflight, callerIv) ==
    IF inflight.ok /\ callerIv # Absent
    THEN [inflight EXCEPT !.value.iv = callerIv[1]]
    ELSE inflight

\* encrypt up to its await: the iv is drawn or taken, checked, and the provider
\* is called with the params, the key and the plaintext, of which it takes copies;
\* inflight is the operation the provider now holds, callerIv the caller's iv
\* buffer. A call that throws before the provider is reached is settled at once.
CallEncrypt ==
    /\ phase = "start"
    /\ \E raw \in AdmittedRawKeys, plaintext \in Plaintexts, opts \in EncryptOptions,
          entropy \in Entropies :
         LET key == importKey(raw).value
             inflight == encrypt(key, plaintext, opts, randomIv(entropy))
             pending == Awaits(inflight, "encrypt")
         IN
         \* entropy is kept only when the call consumed it
         /\ enc' = [raw |-> raw, key |-> key, plaintext |-> plaintext, opts |-> opts,
                    entropy |-> IF opts.iv = Absent THEN Some(entropy) ELSE Absent,
                    callerIv |-> opts.iv,
                    inflight |-> IF pending THEN Some(inflight) ELSE Absent,
                    outcome |-> IF pending THEN NoResult ELSE inflight]
         /\ providerLog' = providerLog \o inflight.calls
         /\ phase' = IF pending THEN "encrypting" ELSE "encrypted"
    /\ UNCHANGED <<dec, importVars, deriveVars, codecVars, lateVars>>

\* the caller flips the bits of the first byte of the iv buffer it passed, once,
\* while encrypt is pending
MutateIv ==
    /\ phase = "encrypting"
    /\ enc.callerIv # Absent
    /\ enc.callerIv = enc.opts.iv
    /\ enc' = [enc EXCEPT !.callerIv[1][1] = Xor(enc.callerIv[1][1], 255)]
    /\ UNCHANGED <<phase, dec, providerLog, importVars, deriveVars, codecVars, lateVars>>

\* the provider finishes and encrypt returns
SettleEncrypt ==
    /\ phase = "encrypting"
    /\ enc' = [enc EXCEPT !.inflight = Absent,
                          !.outcome = ResultOfEncrypt(enc.inflight[1], enc.callerIv)]
    /\ phase' = "encrypted"
    /\ UNCHANGED <<dec, providerLog, importVars, deriveVars, codecVars, lateVars>>

\* decrypt up to its await: the iv is checked and the provider is called with
\* the params, the key and the ciphertext, of which it takes copies. A call that
\* throws before the provider is reached is settled at once.
CallDecrypt ==
    /\ phase = "encrypted"
    /\ enc.outcome.ok
    /\ \E call \in DecryptCalls(enc) :
         LET key == importKey(call.raw).value
             inflight == decrypt(key, call.iv, call.ciphertext, call.opts)
             pending == Awaits(inflight, "decrypt")
         IN
         /\ dec' = [raw |-> call.raw, key |-> key, iv |-> call.iv,
                    ciphertext |-> call.ciphertext, opts |-> call.opts,
                    flipped |-> call.flipped,
                    inflight |-> IF pending THEN Some(inflight) ELSE Absent,
                    outcome |-> IF pending THEN NoResult ELSE inflight]
         /\ providerLog' = providerLog \o inflight.calls
         /\ phase' = IF pending THEN "decrypting" ELSE "decrypted"
    /\ UNCHANGED <<enc, importVars, deriveVars, codecVars, lateVars>>

\* the provider finishes and decrypt returns new Uint8Array(pt), or throws what
\* the provider threw
SettleDecrypt ==
    /\ phase = "decrypting"
    /\ dec' = [dec EXCEPT !.inflight = Absent, !.outcome = dec.inflight[1]]
    /\ phase' = "decrypted"
    /\ UNCHANGED <<enc, providerLog, importVars, deriveVars, codecVars, lateVars>>

\* deriveKeyFromPassword up to its first await: the password is encoded and
\* handed to the provider as a PBKDF2 base key; salt is the caller's buffer,
\* saltAtCall its content at the call (ghost), given the caller's iterations
DeriveCall(t) ==
    /\ derivations[t].pc = "idle"
    /\ \E password \in Passwords, salt \in Salts, iterations \in IterationChoices :
         derivations' = [derivations EXCEPT ![t] =
            [pc |-> "importing", password |-> password, salt |-> salt,
             saltAtCall |-> salt, given |-> iterations,
             iterations |-> OrElse(iterations, DefaultIterations),
             encoded |-> TextEncode(password), baseKey |-> Absent,
             params |-> Absent, outcome |-> NoResult]]
    /\ UNCHANGED <<importVars, cipherVars, providerLog, codecVars, lateVars>>

\* the import settles with the base key: the salt is copied and deriveBits is
\* called
DeriveResume(t) ==
    /\ derivations[t].pc = "importing"
    /\ LET d == derivations[t]
           baseKey == ProviderImportPbkdf2Key(d.encoded)
           saltBuf == Slice(d.salt)
       IN derivations' = [derivations EXCEPT ![t] =
            [d EXCEPT !.pc = "deriving",
                      !.baseKey = Some(baseKey.value),
                      !.params = Some(DeriveBitsParams(saltBuf.bytes, d.iterations)),
                      !.outcome = Fail("", baseKey.calls)]]
    /\ UNCHANGED <<importVars, cipherVars, providerLog, codecVars, lateVars>>

\* the provider finishes deriveBits; the bits come back as a new Uint8Array
DeriveSettle(t) ==
    /\ derivations[t].pc = "deriving"
    /\ LET d == derivations[t]
           bits == ProviderDeriveBits(d.params[1], d.baseKey[1], DerivedKeyBits)
           calls == d.outcome.calls \o bits.calls
       IN derivations' = [derivations EXCEPT ![t] =
            [d EXCEPT !.pc = IF bits.ok THEN "done" ELSE "failed",
                      !.outcome = IF bits.ok THEN Ok(bits.value, calls)
                                  ELSE Fail(bits.error, calls)]]
    /\ UNCHANGED <<importVars, cipherVars, providerLog, codecVars, lateVars>>

CallToBase64 ==
    /\ codec.pc = "start"
    /\ \E bytes \in ByteStrings :
         codec' = [codec EXCEPT !.pc = "toBase64", !.bytes = bytes,
                                !.encoded = toBase64(bytes)]
    /\ UNCHANGED <<importVars, cipherVars, providerLog, deriveVars, lateVars>>

CallToBase64Url ==
    /\ codec.pc = "start"
    /\ \E bytes \in ByteStrings :
         codec' = [codec EXCEPT !.pc = "toBase64Url", !.bytes = bytes,
                                !.encoded = toBase64Url(bytes)]
    /\ UNCHANGED <<importVars, cipherVars, providerLog, deriveVars, lateVars>>

\* fromBase64 of what toBase64 returned, or of a text from elsewhere
CallFromBase64 ==
    /\ \/ codec.pc = "toBase64" /\ codec.encoded.ok
       \/ codec.pc = "start"
    /\ \E text \in IF codec.pc = "start" THEN Texts ELSE {codec.encoded.value} :
         codec' = [codec EXCEPT !.pc = IF codec.pc = "start" THEN "fromBase64"
                                       ELSE "toBase64.fromBase64",
                                !.given = text,
                                !.handed = text,
                                !.decoded = fromBase64(text)]
    /\ UNCHANGED <<importVars, cipherVars, providerLog, deriveVars, lateVars>>

\* fromBase64Url of what toBase64Url returned, or of a text from elsewhere;
\* handed is the text it passes to fromBase64
CallFromBase64Url ==
    /\ \/ codec.pc = "toBase64Url" /\ codec.encoded.ok
       \/ codec.pc = "start"
    /\ \E text \in IF codec.pc = "start" THEN Texts ELSE {codec.encoded.value} :
         codec' = [codec EXCEPT !.pc = IF codec.pc = "start" THEN "fromBase64Url"
                                       ELSE "toBase64Url.fromBase64Url",
                                !.given = text,
                                !.handed = Base64UrlPadded(text),
                                !.decoded = fromBase64Url(text)]
    /\ UNCHANGED <<importVars, cipherVars, providerLog, deriveVars, lateVars>>

\* concatBytes on three buffers, grouped both ways; after is the buffers' content
\* once the calls have returned
CallConcatBytes ==
    /\ codec.pc = "start"
    /\ \E a \in ConcatOperands, b \in ConcatOperands, c \in ConcatOperands :
         LET ab == concatBytes(a, b)
             left == concatBytes(ab.out, c)
             bc == concatBytes(ab.b, left.b)
             right == concatBytes(ab.a, bc.out)
         IN codec' = [codec EXCEPT !.pc = "concatBytes",
                                   !.operands = <<a, b, c>>,
                                   !.after = <<right.a, bc.a, bc.b>>,
                                   !.joined = [ab |-> ab.out, bc |-> bc.out,
                                               left |-> left.out,
                                               right |-> right.out]]
    /\ UNCHANGED <<importVars, cipherVars, providerLog, deriveVars, lateVars>>

CallUtf8ToBytes ==
    /\ codec.pc = "start"
    /\ \E str \in Strings :
         codec' = [codec EXCEPT !.pc = "utf8ToBytes", !.given = str,
                                !.encoded = utf8ToBytes(str)]
    /\ UNCHANGED <<importVars, cipherVars, providerLog, deriveVars, lateVars>>

\* bytesToUtf8 of the Uint8Array utf8ToBytes returned, or of a value from
\* elsewhere
CallBytesToUtf8 ==
    /\ codec.pc \in {"utf8ToBytes", "start"}
    /\ \E x \in IF codec.pc = "start" THEN JsNonBytes \cup JsBytes
                 ELSE {ViewOf("Uint8Array", codec.encoded.value, 0,
                              Len(codec.encoded.value))} :
         codec' = [codec EXCEPT !.pc = IF codec.pc = "start" THEN "bytesToUtf8"
                                       ELSE "utf8ToBytes.bytesToUtf8",
                                !.arg = x,
                                !.decoded = bytesToUtf8(x)]
    /\ UNCHANGED <<importVars, cipherVars, providerLog, deriveVars, lateVars>>

\* slip: the request is kept where every call writes it, and a call that resumes
\* reads the one written last
AwaitedRequestLatest(t) == tasks[lastCaller].request[1]

\* the provider operation task t's call awaits: the params, key and data that
\* call passed
AwaitedRequest(t) == tasks[t].request[1]

\* some other task has a call pending at the provider
OthersPending(t) ==
    \E u \in TaskIds \ {t} : tasks[u].pc \in {"encrypting", "decrypting"}

\* task t draws its iv and calls encrypt(key, pt, { iv }), up to the await
TaskEncryptCall(t) ==
    /\ tasks[t].pc = "idle"
    /\ \E n \in TaskPlaintextLens, entropy \in TaskEntropies(t) :
         LET iv == randomIv(entropy)
             opts == TaskEncryptOptions(iv)
             plaintext == TaskPlaintext(t, n)
         IN
         /\ IvLengthOk(OrElse(opts.iv, iv))
         /\ tasks' = [tasks EXCEPT ![t] =
              [pc |-> "encrypting", plaintext |-> plaintext, iv |-> OrElse(opts.iv, iv),
               request |-> Some([params |-> EncryptParams(OrElse(opts.iv, iv), opts),
                                 key |-> SharedKey, data |-> plaintext]),
               encrypted |-> NoResult, decrypted |-> NoResult,
               overlapped |-> OthersPending(t)]]
    /\ lastCaller' = t
    /\ UNCHANGED <<importVars, cipherVars, providerLog, deriveVars, codecVars,
                   wireVars, aliasVars, chainVars>>

\* the provider finishes task t's encryption and encrypt returns { iv, ciphertext }
TaskEncryptSettle(t) ==
    /\ tasks[t].pc = "encrypting"
    /\ LET r == AwaitedRequest(t)
           ct == ProviderEncrypt(r.params, r.key, r.data)
       IN tasks' = [tasks EXCEPT ![t] =
            [@ EXCEPT !.pc = "encrypted",
                      !.request = Absent,
                      !.encrypted = IF ct.ok
                                    THEN Ok([iv |-> tasks[t].iv, ciphertext |-> ct.value],
                                            ct.calls)
                                    ELSE Fail(ct.error, ct.calls)]]
    /\ UNCHANGED <<lastCaller, importVars, cipherVars, providerLog, deriveVars, codecVars,
                   wireVars, aliasVars, chainVars>>

\* task t calls decrypt(key, iv, ciphertext), up to the await
TaskDecryptCall(t) ==
    /\ tasks[t].pc = "encrypted"
    /\ tasks[t].encrypted.ok
    /\ IvLengthOk(tasks[t].iv)
    /\ tasks' = [tasks EXCEPT ![t] =
         [@ EXCEPT !.pc = "decrypting",
                   !.request = Some([params |-> DecryptParams(tasks[t].iv,
                                                              TaskDecryptOptions),
                                     key |-> SharedKey,
                                     data |-> tasks[t].encrypted.value.ciphertext]),
                   !.overlapped = @ \/ OthersPending(t)]]
    /\ lastCaller' = t
    /\ UNCHANGED <<importVars, cipherVars, providerLog, deriveVars, codecVars,
                   wireVars, aliasVars, chainVars>>

\* the provider finishes task t's decryption and decrypt returns the plaintext
TaskDecryptSettle(t) ==
    /\ tasks[t].pc = "decrypting"
    /\ LET r == AwaitedRequest(t)
       IN tasks' = [tasks EXCEPT ![t] =
            [@ EXCEPT !.pc = "done",
                      !.request = Absent,
                      !.decrypted = ProviderDecrypt(r.params, r.key, r.data)]]
    /\ UNCHANGED <<lastCaller, importVars, cipherVars, providerLog, deriveVars, codecVars,
                   wireVars, aliasVars, chainVars>>

NextTasks ==
    \E t \in TaskIds :
        TaskEncryptCall(t) \/ TaskEncryptSettle(t) \/ TaskDecryptCall(t)
        \/ TaskDecryptSettle(t)

\* the example encrypts under the shared key with an iv of its own: encrypt up
\* to its await, where main waits for it
WireCallEncrypt ==
    /\ wire.pc = "start"
    /\ \E iv \in WireIvs, plaintext \in Plaintexts :
         LET e == encrypt(SharedKey, plaintext, TaskEncryptOptions(iv), iv)
         IN /\ Awaits(e, "encrypt")
            /\ wire' = [wire EXCEPT !.pc = "encrypting", !.origin = "encrypt",
                                    !.plaintext = plaintext, !.iv = iv,
                                    !.inflight = Some(e)]
    /\ UNCHANGED <<importVars, cipherVars, providerLog, deriveVars, codecVars,
                   taskVars, aliasVars, chainVars>>

\* the provider finishes; main takes the ciphertext of the result
WireSettleEncrypt ==
    /\ wire.pc = "encrypting"
    /\ wire.inflight[1].ok
    /\ wire' = [wire EXCEPT !.pc = "encrypted", !.inflight = Absent,
                            !.ciphertext = wire.inflight[1].value.ciphertext]
    /\ UNCHANGED <<importVars, cipherVars, providerLog, deriveVars, codecVars,
                   taskVars, aliasVars, chainVars>>

\* an iv and a ciphertext that come from elsewhere
WireReceive ==
    /\ wire.pc = "start"
    /\ \E iv \in WireIvs, ciphertext \in WireCiphertexts :
         wire' = [wire EXCEPT !.pc = "encrypted", !.origin = "elsewhere", !.iv = iv,
                              !.ciphertext = ciphertext]
    /\ UNCHANGED <<importVars, cipherVars, providerLog, deriveVars, codecVars,
                   taskVars, aliasVars, chainVars>>

WirePack ==
    /\ wire.pc = "encrypted"
    /\ wire' = [wire EXCEPT !.pc = "packed", !.packed = Pack(wire.iv, wire.ciphertext)]
    /\ UNCHANGED <<importVars, cipherVars, providerLog, deriveVars, codecVars,
                   taskVars, aliasVars, chainVars>>

\* split, then fromBase64Url of the two names
WireUnpack ==
    /\ wire.pc = "packed"
    /\ LET u == Unpack(wire.packed)
       IN /\ u.ivB64 # Absent
          /\ u.ctB64 # Absent
          /\ wire' = [wire EXCEPT !.pc = "unpacked", !.fields = u.fields,
                                  !.iv2 = fromBase64Url(u.ivB64[1]),
                                  !.ct2 = fromBase64Url(u.ctB64[1])]
    /\ UNCHANGED <<importVars, cipherVars, providerLog, deriveVars, codecVars,
                   taskVars, aliasVars, chainVars>>

\* decrypt(key, iv2, ct2) up to its await, where main waits for it
WireCallDecrypt ==
    /\ wire.pc = "unpacked"
    /\ wire.iv2.ok
    /\ wire.ct2.ok
    /\ LET d == decrypt(SharedKey, wire.iv2.value, wire.ct2.value, TaskDecryptOptions)
       IN /\ Awaits(d, "decrypt")
          /\ wire' = [wire EXCEPT !.pc = "decrypting", !.inflight = Some(d)]
    /\ UNCHANGED <<importVars, cipherVars, providerLog, deriveVars, codecVars,
                   taskVars, aliasVars, chainVars>>

\* the provider finishes and decrypt returns, or throws what the provider threw
WireSettleDecrypt ==
    /\ wire.pc = "decrypting"
    /\ wire' = [wire EXCEPT !.pc = "decrypted", !.inflight = Absent,
                            !.decrypted = wire.inflight[1]]
    /\ UNCHANGED <<importVars, cipherVars, providerLog, deriveVars, codecVars,
                   taskVars, aliasVars, chainVars>>

\* the buffer a name of the caller's stands for
BufferOf(name) ==
    IF name = "result.iv" THEN alias.result.iv
    ELSE IF name = "result.ciphertext" THEN alias.result.ciphertext
    ELSE name

\* encrypt(key, plaintext, { iv, aad }) on the caller's buffers, up to its
\* await: the provider has taken copies of what it was handed
AliasCallEncrypt ==
    /\ alias.pc = "start"
    /\ \E plaintext \in Plaintexts \ {<<>>}, aad \in AadBuffers :
         LET held == [n \in BufferNames |->
                         IF n = "rawKey" THEN KeyA
                         ELSE IF n = "plaintext" THEN plaintext
                         ELSE IF n = "iv" THEN IvA
                         ELSE IF n = "aad" THEN aad ELSE <<>>]
             opts == [iv |-> Some(held["iv"]), aad |-> Some(held["aad"]),
                      tagLength |-> Absent]
             e == encrypt(importKey(held["rawKey"]).value, held["plaintext"], opts,
                          held["iv"])
         IN /\ Awaits(e, "encrypt")
            /\ alias' = [alias EXCEPT !.pc = "encrypting", !.buffers = held,
                                      !.atCall = held, !.inflight = Some(e)]
    /\ UNCHANGED <<importVars, cipherVars, providerLog, deriveVars, codecVars, taskVars,
                   wireVars, chainVars>>

\* the provider finishes: the result holds the caller's iv object and a view of
\* the provider's bytes
AliasSettleEncrypt ==
    /\ alias.pc = "encrypting"
    /\ alias.inflight[1].ok
    /\ LET view == NewCiphertext(alias.inflight[1].value.ciphertext)
       IN alias' = [alias EXCEPT
                      !.pc = "returned",
                      !.inflight = Absent,
                      !.buffers[view.buffer] = view.bytes,
                      !.returned = alias.inflight[1].value.ciphertext,
                      !.result = [iv |-> "iv", ciphertext |-> view.buffer]]
    /\ UNCHANGED <<importVars, cipherVars, providerLog, deriveVars, codecVars, taskVars,
                   wireVars, chainVars>>

\* the caller flips the bits of the first byte it reaches through one of its
\* names (ciphertext[0] ^= 0xff), while encrypt is pending or after it returned
AliasWrite ==
    /\ alias.pc \in {"encrypting", "returned"}
    /\ Cardinality(alias.written) < MaxWrites
    /\ \E name \in (IF alias.pc = "returned" THEN WritableNames ELSE CallerBuffers)
                       \ alias.written :
         LET b == BufferOf(name)
         IN /\ alias.buffers[b] # <<>>
            /\ alias' = [alias EXCEPT
                           !.buffers[b][1] = Xor(alias.buffers[b][1], 255),
                           !.written = @ \cup {name}]
    /\ UNCHANGED <<importVars, cipherVars, providerLog, deriveVars, codecVars, taskVars,
                   wireVars, chainVars>>

\* decrypt(key, result.iv, result.ciphertext, { aad }) on the buffers as they
\* are, up to its await
AliasCallDecrypt ==
    /\ alias.pc = "returned"
    /\ LET d == decrypt(SharedKey, alias.buffers[alias.result.iv],
                        alias.buffers[alias.result.ciphertext],
                        [aad |-> Some(alias.buffers["aad"]), tagLength |-> Absent])
       IN /\ Awaits(d, "decrypt")
          /\ alias' = [alias EXCEPT !.pc = "decrypting", !.inflight = Some(d)]
    /\ UNCHANGED <<importVars, cipherVars, providerLog, deriveVars, codecVars, taskVars,
                   wireVars, chainVars>>

AliasSettleDecrypt ==
    /\ alias.pc = "decrypting"
    /\ alias' = [alias EXCEPT !.pc = "decrypted", !.inflight = Absent,
                              !.decrypted = alias.inflight[1]]
    /\ UNCHANGED <<importVars, cipherVars, providerLog, deriveVars, codecVars, taskVars,
                   wireVars, chainVars>>

NextAlias ==
    \/ AliasCallEncrypt \/ AliasSettleEncrypt \/ AliasWrite \/ AliasCallDecrypt
    \/ AliasSettleDecrypt

\* the deriveKeyFromPassword call whose bytes are imported next
NextImported == ChainOrder[Len(chain.imported) + 1]

\* importKey of the bytes a derivation returned, up to its await; the calls are
\* made one after the other once both derivations have settled
ChainCallImport ==
    /\ chain.pc = "start"
    /\ \A t \in DeriveCalls : derivations[t].pc = "done"
    /\ Len(chain.imported) < Len(ChainOrder)
    /\ LET k == importKey(derivations[NextImported].outcome.value)
       IN chain' = IF Awaits(k, "importKey")
                   THEN [chain EXCEPT !.pc = "importing", !.inflight = Some(k)]
                   ELSE [chain EXCEPT !.imported = Append(@, k)]
    /\ UNCHANGED <<importVars, cipherVars, providerLog, deriveVars, codecVars, taskVars,
                   wireVars, aliasVars>>

ChainSettleImport ==
    /\ chain.pc = "importing"
    /\ chain' = [chain EXCEPT !.pc = "start", !.inflight = Absent,
                              !.imported = Append(@, chain.inflight[1])]
    /\ UNCHANGED <<importVars, cipherVars, providerLog, deriveVars, codecVars, taskVars,
                   wireVars, aliasVars>>

\* encrypt under the first key, up to its await
ChainCallEncrypt ==
    /\ chain.pc = "start"
    /\ Len(chain.imported) = Len(ChainOrder)
    /\ \A i \in 1..Len(ChainOrder) : chain.imported[i].ok
    /\ \E plaintext \in Plaintexts :
         LET e == encrypt(chain.imported[1].value, plaintext, TaskEncryptOptions(IvA),
                          IvA)
         IN /\ Awaits(e, "encrypt")
            /\ chain' = [chain EXCEPT !.pc = "encrypting", !.plaintext = plaintext,
                                      !.inflight = Some(e)]
    /\ UNCHANGED <<importVars, cipherVars, providerLog, deriveVars, codecVars, taskVars,
                   wireVars, aliasVars>>

ChainSettleEncrypt ==
    /\ chain.pc = "encrypting"
    /\ chain' = [chain EXCEPT !.pc = "encrypted", !.inflight = Absent,
                              !.encrypted = chain.inflight[1]]
    /\ UNCHANGED <<importVars, cipherVars, providerLog, deriveVars, codecVars, taskVars,
                   wireVars, aliasVars>>

\* decrypt of that ciphertext under one of the two keys, up to its await
ChainCallDecrypt ==
    /\ chain.pc = "encrypted"
    /\ chain.encrypted.ok
    /\ \E i \in 1..Len(ChainOrder) :
         LET d == decrypt(chain.imported[i].value, chain.encrypted.value.iv,
                          chain.encrypted.value.ciphertext, TaskDecryptOptions)
         IN /\ Awaits(d, "decrypt")
            /\ chain' = [chain EXCEPT !.pc = "decrypting", !.link = i,
                                      !.inflight = Some(d)]
    /\ UNCHANGED <<importVars, cipherVars, providerLog, deriveVars, codecVars, taskVars,
                   wireVars, aliasVars>>

ChainSettleDecrypt ==
    /\ chain.pc = "decrypting"
    /\ chain' = [chain EXCEPT !.pc = "decrypted", !.inflight = Absent,
                              !.decrypted = chain.inflight[1]]
    /\ UNCHANGED <<importVars, cipherVars, providerLog, deriveVars, codecVars, taskVars,
                   wireVars, aliasVars>>

NextChain ==
    \/ ChainCallImport \/ ChainSettleImport \/ ChainCallEncrypt \/ ChainSettleEncrypt
    \/ ChainCallDecrypt \/ ChainSettleDecrypt

NextWire ==
    \/ WireCallEncrypt \/ WireSettleEncrypt \/ WireReceive \/ WirePack \/ WireUnpack
    \/ WireCallDecrypt \/ WireSettleDecrypt

NextCodec ==
    \/ CallToBase64 \/ CallToBase64Url \/ CallFromBase64 \/ CallFromBase64Url
    \/ CallConcatBytes \/ CallUtf8ToBytes \/ CallBytesToUtf8

\* the caller flips the first byte of the salt buffer it passed, once, while the
\* call is pending
MutateSalt(t) ==
    /\ derivations[t].pc \in {"importing", "deriving"}
    /\ derivations[t].salt = derivations[t].saltAtCall
    /\ derivations' = [derivations EXCEPT
                        ![t].salt[1] = Xor(derivations[t].salt[1], 255)]
    /\ UNCHANGED <<importVars, cipherVars, providerLog, codecVars, lateVars>>

NextDerive == \E t \in DeriveCalls : DeriveCall(t) \/ DeriveResume(t) \/ DeriveSettle(t)
NextImport == ImportKeyCall \/ ImportKeySettle \/ MutateRawKey
NextCipher ==
    CallEncrypt \/ MutateIv \/ SettleEncrypt \/ CallDecrypt \/ SettleDecrypt
Next == NextImport \/ NextCipher \/ NextDerive \/ NextCodec \/ NextTasks \/ NextWire
        \/ NextAlias \/ NextChain \/ (\E t \in DeriveCalls : MutateSalt(t))

\* key admission alone, with the caller writing to its buffer at any time
InitImport == Init
SpecImport == InitImport /\ [][NextImport]_vars

\* one encrypt and one decrypt under keys importKey admits
InitCipher == Init /\ rawKey = KeyA
SpecCipher == InitCipher /\ [][NextCipher]_vars

\* two deriveKeyFromPassword calls, their steps interleaved in every order
InitDerive == Init /\ rawKey = KeyA
SpecDerive == InitDerive /\ [][NextDerive]_vars

\* the same two calls with the caller writing to a salt buffer while its call is
\* pending
NextDeriveRace == NextDerive \/ \E t \in DeriveCalls : MutateSalt(t)
InitDeriveRace == Init /\ rawKey = KeyA
SpecDeriveRace == InitDeriveRace /\ [][NextDeriveRace]_vars

\* the encoders on every input, decoding what they encoded
InitCodec == Init /\ rawKey = KeyA
SpecCodec == InitCodec /\ [][NextCodec]_vars

\* encrypt-then-decrypt tasks on one key, their calls and completions
\* interleaved in every order
InitTasks == Init /\ rawKey = KeyA
SpecTasks == InitTasks /\ [][NextTasks]_vars

\* the usage example: encrypt, pack, unpack, decrypt
InitWire == Init /\ rawKey = KeyA
SpecWire == InitWire /\ [][NextWire]_vars

\* one encrypt call and the caller's writes to its buffers and to the result
InitAlias == Init /\ rawKey = KeyA
SpecAlias == InitAlias /\ [][NextAlias]_vars

\* derive twice, import both results, encrypt under one key, decrypt under either
InitChain == Init /\ rawKey = KeyA
SpecChain == InitChain /\ [][NextDerive \/ NextChain]_vars

\* every interleaving of the groups, which write disjoint variables
Spec == Init /\ [][Next]_vars

----------------------------------------------------------------------------
(* Properties of encrypt and decrypt, checked under SpecCipher.            *)

Encrypted == phase \in {"encrypted", "decrypting", "decrypted"}
Decrypted == phase = "decrypted"

\* what the decrypt call was given, against the encrypt call before it
SameKey == dec.raw = enc.raw
SameIv == dec.iv = IvUsedBy(enc)
SameCiphertext == dec.ciphertext = enc.outcome.value.ciphertext
SameAad == dec.opts.aad = enc.opts.aad
SameTagLength == dec.opts.tagLength = enc.opts.tagLength
CallerIv == enc.opts.iv # Absent
Returned(bytes) == dec.outcome.ok /\ dec.outcome.value = bytes
\* the spec's AuthenticationFailure: the provider refused, decrypt returned nothing
AuthenticationFailure == dec.outcome = Fail(OperationError, <<"decrypt">>)

\* C1: round trip. encrypt(K, P, {iv: I}) with a 12-byte I succeeds, and
\* decrypt(K, I, its ciphertext) returns exactly P, for every plaintext
\* (the empty one included) and every admitted key.
C1_RoundTrip ==
    /\ (Encrypted /\ CallerIv /\ Len(enc.opts.iv[1]) = 12
          /\ enc.opts.aad = Absent /\ enc.opts.tagLength = Absent)
       => enc.outcome.ok
    /\ (Decrypted /\ CallerIv /\ enc.opts.aad = Absent /\ enc.opts.tagLength = Absent
          /\ dec.opts.aad = Absent /\ dec.opts.tagLength = Absent
          /\ SameKey /\ dec.iv = enc.opts.iv[1] /\ SameCiphertext)
       => Returned(enc.plaintext)

C1_Witness ==
    /\ Decrypted /\ CallerIv /\ enc.opts.aad = Absent /\ enc.opts.tagLength = Absent
    /\ dec.opts.aad = Absent /\ dec.opts.tagLength = Absent
    /\ SameKey /\ dec.iv = enc.opts.iv[1] /\ SameCiphertext
    /\ enc.plaintext = <<0, 85>> /\ dec.outcome.value = <<0, 85>>
    /\ enc.outcome.value.ciphertext # enc.plaintext

\* C2: tamper detection. With the key, iv, aad and tagLength of the encrypt
\* call, decrypt of the ciphertext with any single bit flipped, in the body or
\* in the appended tag, fails and returns no plaintext.
C2_TamperDetected ==
    (Decrypted /\ CallerIv /\ SameKey /\ SameIv /\ SameAad /\ SameTagLength
       /\ dec.flipped # Absent)
    => /\ dec.ciphertext # enc.outcome.value.ciphertext
       /\ dec.ciphertext = FlipBit(enc.outcome.value.ciphertext,
                                   dec.flipped[1][1], dec.flipped[1][2])
       /\ ~dec.outcome.ok
       /\ dec.outcome.value = <<>>

\* a flip in the body of a two-byte plaintext's ciphertext, refused
C2_Witness ==
    /\ Decrypted /\ CallerIv /\ SameKey /\ SameIv /\ SameAad /\ SameTagLength
    /\ Len(enc.plaintext) = 2
    /\ dec.flipped = Some(<<2, 7>>)
    /\ dec.ciphertext = FlipBit(enc.outcome.value.ciphertext, 2, 7)
    /\ ~dec.outcome.ok

\* C3: key independence. decrypt of an untouched ciphertext with the iv and
\* options of the encrypt call, under a key admitted from bytes that differ
\* from those of the encrypting key, fails.
C3_WrongKeyFails ==
    (Decrypted /\ CallerIv /\ dec.raw # enc.raw /\ SameIv /\ SameCiphertext
       /\ SameAad /\ SameTagLength)
    => ~dec.outcome.ok

C3_Witness ==
    /\ Decrypted /\ CallerIv /\ enc.raw = KeyA /\ dec.raw = KeyB
    /\ SameIv /\ SameCiphertext /\ SameAad /\ SameTagLength
    /\ ~dec.outcome.ok

\* C4: nonce independence. decrypt of an untouched ciphertext with the key
\* and options of the encrypt call, under any iv other than the one encrypt
\* used, fails.
C4_WrongIvFails ==
    (Decrypted /\ CallerIv /\ SameKey /\ dec.iv # enc.opts.iv[1] /\ SameCiphertext
       /\ SameAad /\ SameTagLength)
    => ~dec.outcome.ok

\* a 12-byte iv that differs from the encrypting one in a single bit
C4_Witness ==
    /\ Decrypted /\ CallerIv /\ SameKey /\ SameCiphertext /\ SameAad /\ SameTagLength
    /\ enc.opts.iv[1] = IvA /\ dec.iv = IvB
    /\ AuthenticationFailure

\* C5 as stated: encrypt with aad = A; decrypt with the same key, iv,
\* ciphertext and tagLength returns the plaintext when given A, and fails
\* when given any other aad argument, an omitted one included.
C5_AadBindingAsStated ==
    (Decrypted /\ CallerIv /\ enc.opts.aad # Absent
       /\ SameKey /\ SameIv /\ SameCiphertext /\ SameTagLength)
    => IF dec.opts.aad = enc.opts.aad
       THEN Returned(enc.plaintext)
       ELSE ~dec.outcome.ok

\* the associated data an aad argument stands for: none is the empty sequence
AadBytes(aad) == OrElse(aad, <<>>)

\* C5 (amended): encrypt with aad = A; decrypt with the same key, iv,
\* ciphertext and tagLength returns the plaintext when the aad it is given
\* has the bytes of A, and fails when the bytes differ, where an omitted aad
\* counts as the empty byte sequence.
C5_AadBinding ==
    (Decrypted /\ CallerIv /\ enc.opts.aad # Absent
       /\ SameKey /\ SameIv /\ SameCiphertext /\ SameTagLength)
    => IF AadBytes(dec.opts.aad) = AadBytes(enc.opts.aad)
       THEN Returned(enc.plaintext)
       ELSE AuthenticationFailure

\* a wrong, non-empty aad is refused
C5_Witness ==
    /\ Decrypted /\ CallerIv /\ SameKey /\ SameIv /\ SameCiphertext /\ SameTagLength
    /\ enc.opts.aad = Some(<<5, 6>>) /\ dec.opts.aad = Some(<<5>>)
    /\ AuthenticationFailure

DocumentedTagLengths == {96, 104, 112, 120, 128}

\* C6: tag-length variation. For each tagLength of 96, 104, 112, 120, 128
\* and any aad, encrypt succeeds and decrypt with the same key, iv,
\* tagLength and aad returns the plaintext.
C6_TagLengthRoundTrip ==
    /\ (Encrypted /\ CallerIv /\ Len(enc.opts.iv[1]) = 12
          /\ enc.opts.tagLength # Absent
          /\ enc.opts.tagLength[1] \in DocumentedTagLengths)
       => enc.outcome.ok
    /\ (Decrypted /\ CallerIv /\ enc.opts.tagLength # Absent
          /\ enc.opts.tagLength[1] \in DocumentedTagLengths
          /\ SameKey /\ SameIv /\ SameCiphertext /\ SameAad /\ SameTagLength)
       => Returned(enc.plaintext)

C6_Witness ==
    /\ Decrypted /\ CallerIv /\ SameKey /\ SameIv /\ SameCiphertext /\ SameAad
    /\ enc.opts.tagLength = Some(96) /\ dec.opts.tagLength = Some(96)
    /\ enc.opts.aad = Some(<<5>>)
    /\ Len(enc.plaintext) = 2 /\ Returned(enc.plaintext)
    /\ Len(dec.ciphertext) = 14

\* the tag length a call uses: the option, or the default
TagLengthUsed(opts) == OrElse(opts.tagLength, 128)

\* C7: tag-length mismatch. decrypt with the key, iv, aad and ciphertext of
\* the encrypt call but another tag length (given, or the default on one
\* side) fails with AuthenticationFailure.
C7_TagLengthMismatchFails ==
    (Decrypted /\ CallerIv /\ SameKey /\ SameIv /\ SameCiphertext /\ SameAad
       /\ TagLengthUsed(dec.opts) # TagLengthUsed(enc.opts))
    => AuthenticationFailure

\* encrypt with 96, decrypt relying on the default
C7_Witness ==
    /\ Decrypted /\ CallerIv /\ SameKey /\ SameIv /\ SameCiphertext /\ SameAad
    /\ enc.opts.tagLength = Some(96) /\ dec.opts.tagLength = Absent
    /\ Len(enc.plaintext) = 2
    /\ AuthenticationFailure

\* C10: iv length. encrypt with a caller iv and decrypt fail with
\* InvalidIvLength, the provider not invoked, when the iv has any length but
\* 12; with a 12-byte iv neither ever fails with InvalidIvLength.
C10_IvLengthValidated ==
    /\ (Encrypted /\ CallerIv)
       => IF Len(enc.opts.iv[1]) # 12
          THEN enc.outcome = Fail(InvalidIvLength, <<>>) /\ providerLog = <<>>
          ELSE enc.outcome.error # InvalidIvLength /\ enc.outcome.calls = <<"encrypt">>
    /\ Decrypted
       => IF Len(dec.iv) # 12
          THEN dec.outcome = Fail(InvalidIvLength, <<>>) /\ providerLog = enc.outcome.calls
          ELSE dec.outcome.error # InvalidIvLength /\ dec.outcome.calls = <<"decrypt">>

\* decrypt with the 8-byte iv is refused before the provider is reached
C10_Witness ==
    /\ Decrypted /\ Len(dec.iv) = 8
    /\ dec.outcome.error = InvalidIvLength
    /\ "decrypt" \notin { providerLog[i] : i \in 1..Len(providerLog) }

----------------------------------------------------------------------------
(* Properties of importKey, checked under SpecImport.                      *)

ProviderImports == Cardinality({ i \in 1..Len(providerLog) : providerLog[i] = "importKey" })

\* C8: importKey admits exactly the 32-byte inputs. Any other length fails
\* with InvalidKeyLength without the provider's import being invoked; a
\* 32-byte input reaches the provider and yields a Key.
C8_KeyLengthChecked ==
    /\ importPc = "failed"
       => /\ Len(rawKeyAtCall) # 32
          /\ importResult = Fail(InvalidKeyLength, <<>>)
          /\ ProviderImports = 0
    /\ importPc \in {"pending", "done"}
       => /\ Len(rawKeyAtCall) = 32
          /\ ProviderImports = 1
    /\ importPc = "done"
       => /\ importResult.ok
          /\ Len(importResult.value.material) = 32

\* a 16-byte key, which the provider would take as AES-128, is refused
C8_Witness ==
    /\ importPc = "failed" /\ Len(rawKeyAtCall) = 16
    /\ importResult.error = InvalidKeyLength /\ providerLog = <<>>

\* C9: defensive copy. The key admitted holds the bytes rawKey had when
\* importKey was called, whatever the caller writes to the buffer while the
\* import is pending or afterwards; a ciphertext made with it decrypts under
\* a key imported from the original bytes.
C9_KeyFromBytesAtCall ==
    importPc = "done"
    => /\ importResult.value.material = rawKeyAtCall
       /\ \A p \in Plaintexts :
            LET made == encrypt(importResult.value, p,
                                [iv |-> Some(IvA), aad |-> Absent, tagLength |-> Absent], IvB)
                back == decrypt(importKey(rawKeyAtCall).value, IvA,
                                made.value.ciphertext,
                                [aad |-> Absent, tagLength |-> Absent])
            IN made.ok /\ back.ok /\ back.value = p

\* the buffer was overwritten while the import was pending, and again after
C9_Witness ==
    /\ importPc = "done" /\ mutations = 2
    /\ rawKey # rawKeyAtCall
    /\ importResult.value.material = rawKeyAtCall

----------------------------------------------------------------------------
(* Nonce generation, checked under SpecCipher.                             *)

\* C11: encrypt called without an iv never fails with InvalidIvLength; when it
\* succeeds it has asked the provider for random bytes exactly once, before the one
\* provider encrypt, result.iv is the 12 bytes the provider produced, and decrypt
\* with result.iv, result.ciphertext and the same key, aad and tagLength returns
\* the plaintext.
C11_RandomIvWhenOmitted ==
    (Encrypted /\ enc.opts.iv = Absent) =>
        /\ enc.outcome.error # InvalidIvLength
        /\ enc.outcome.calls[1] = "getRandomValues"
        /\ Cardinality({ i \in DOMAIN enc.outcome.calls :
                           enc.outcome.calls[i] = "getRandomValues" }) = 1
        /\ enc.outcome.ok =>
              /\ enc.outcome.calls = <<"getRandomValues", "encrypt">>
              /\ Len(enc.outcome.value.iv) = DEFAULT_IV_BYTES
              /\ enc.outcome.value.iv = SubSeq(enc.entropy[1], 1, DEFAULT_IV_BYTES)
        /\ (Decrypted /\ SameKey /\ dec.iv = enc.outcome.value.iv /\ SameCiphertext
               /\ SameAad /\ SameTagLength) => Returned(enc.plaintext)

\* a nonce no caller passes was drawn, and decrypt under it gave the plaintext back
C11_Witness ==
    /\ Decrypted
    /\ enc.opts.iv = Absent
    /\ enc.outcome.value.iv \notin IvChoices
    /\ enc.plaintext # <<>>
    /\ dec.iv = enc.outcome.value.iv
    /\ Returned(enc.plaintext)
----------------------------------------------------------------------------
(* What a failed decrypt shows, checked under SpecCipher.                  *)

\* the one result every failure after the iv length check has
OpaqueFailure == Fail(OperationError, <<"decrypt">>)

\* C12: failure indistinguishability. A decrypt given a 12-byte iv that differs
\* from the encrypt call in its key, in its iv, or in one bit of the ciphertext
\* (alone or together, whatever aad and tagLength it is given) ends in one and
\* the same result: the provider's failure, no bytes, nothing that depends on
\* which of the three was wrong.
C12_FailureIndistinguishable ==
    (Decrypted /\ Len(dec.iv) = DEFAULT_IV_BYTES
       /\ (~SameKey \/ ~SameIv \/ dec.flipped # Absent))
    => dec.outcome = OpaqueFailure

\* wrong key and wrong iv at once, everything else as encrypted
C12_Witness ==
    /\ Decrypted /\ enc.plaintext # <<>>
    /\ ~SameKey /\ ~SameIv /\ Len(dec.iv) = DEFAULT_IV_BYTES
    /\ SameCiphertext /\ SameAad /\ SameTagLength
    /\ dec.outcome = OpaqueFailure
----------------------------------------------------------------------------
(* Key derivation, checked under SpecDerive.                               *)

Settled(t) == derivations[t].pc \in {"done", "failed"}
Derived(t) == derivations[t].pc = "done"
SamePassword(t, u) == derivations[t].password = derivations[u].password
SameSalt(t, u) == derivations[t].salt = derivations[u].salt
SameIterations(t, u) == derivations[t].iterations = derivations[u].iterations
SameDerivedBytes(t, u) == derivations[t].outcome.value = derivations[u].outcome.value
\* the HMAC key a password comes to: its UTF-8 bytes, zero-padded
PasswordKey(t) == HmacKey(TextEncode(derivations[t].password))

----------------------------------------------------------------------------
(* Properties of the encoders, checked under SpecCodec.                    *)

\* C14: Base64 round trip. fromBase64(toBase64(B)) succeeds and returns exactly
\* B, for the empty B, for every single byte 0..255 and for every other B tried.
C14_Base64RoundTrip ==
    codec.pc = "toBase64.fromBase64" =>
        /\ codec.encoded.ok /\ codec.given = codec.encoded.value
        /\ codec.decoded.ok
        /\ codec.decoded.value = codec.bytes

\* three bytes above 127 that encode to "++++" came back
C14_Witness ==
    /\ codec.pc = "toBase64.fromBase64"
    /\ codec.bytes = <<251, 239, 190>>
    /\ codec.given = <<43, 43, 43, 43>>
    /\ codec.decoded.value = <<251, 239, 190>>
\* C15: Base64URL round trip. fromBase64Url(toBase64Url(B)) succeeds and
\* returns exactly B, for the empty B and for lengths 0, 1 and 2 mod 3, where
\* the decoder puts back the 0, 2 and 1 padding characters the encoder stripped.
C15_Base64UrlRoundTrip ==
    codec.pc = "toBase64Url.fromBase64Url" =>
        /\ codec.encoded.ok /\ codec.given = codec.encoded.value
        /\ codec.decoded.ok
        /\ codec.decoded.value = codec.bytes
        /\ Len(codec.handed) - Len(codec.given)
             = CASE Len(codec.bytes) % 3 = 0 -> 0
                 [] Len(codec.bytes) % 3 = 1 -> 2
                 [] Len(codec.bytes) % 3 = 2 -> 1

\* two bytes that encode to "-_8" came back, one '=' put back on the way
C15_Witness ==
    /\ codec.pc = "toBase64Url.fromBase64Url"
    /\ codec.bytes = <<251, 255>>
    /\ codec.given = <<45, 95, 56>>
    /\ codec.handed = <<43, 47, 56, 61>>
    /\ codec.decoded.value = <<251, 255>>
\* the code units of A-Z, a-z, 0-9
AlphaNumeric == (65..90) \cup (97..122) \cup (48..57)
\* how many '=' a text ends with
TrailingPads(text) == Len(text) - PaddingStart(text, Len(text))

\* C16: toBase64 emits RFC 4648 Base64 with padding. For n bytes the text has
\* 4 * ceil(n / 3) characters and ends with two '=' when n mod 3 = 1, one when
\* n mod 3 = 2 and none when n mod 3 = 0; before that padding every character
\* is one of A-Z a-z 0-9 + /. [1] gives "AQ==", [1,2] "AQI=", [1,2,3] "AQID".
C16_Base64Padding ==
    codec.pc \in {"toBase64", "toBase64.fromBase64"} =>
        LET n == Len(codec.bytes)
            text == codec.encoded.value
            pads == CASE n % 3 = 0 -> 0 [] n % 3 = 1 -> 2 [] n % 3 = 2 -> 1
        IN /\ codec.encoded.ok
           /\ Len(text) = 4 * ((n + 2) \div 3)
           /\ TrailingPads(text) = pads
           /\ \A i \in 1..(Len(text) - pads) : text[i] \in AlphaNumeric \cup {43, 47}
           /\ codec.bytes = <<1>> => text = <<65, 81, 61, 61>>
           /\ codec.bytes = <<1, 2>> => text = <<65, 81, 73, 61>>
           /\ codec.bytes = <<1, 2, 3>> => text = <<65, 81, 73, 68>>

\* [1, 2] was encoded to "AQI="
C16_Witness ==
    /\ codec.pc = "toBase64"
    /\ codec.bytes = <<1, 2>>
    /\ codec.encoded.value = <<65, 81, 73, 61>>
\* C17: toBase64Url(B) is toBase64(B) with its trailing '=' removed, every '+'
\* replaced by '-' and every '/' by '_'; it never contains '+', '/' or '=', and
\* all its characters are in A-Z a-z 0-9 - _.
C17_Base64UrlAlphabet ==
    codec.pc \in {"toBase64Url", "toBase64Url.fromBase64Url"} =>
        LET b64 == toBase64(codec.bytes).value
            url == codec.encoded.value
        IN /\ codec.encoded.ok
           /\ Len(url) = Len(b64) - TrailingPads(b64)
           /\ \A i \in 1..Len(url) :
                 /\ url[i] = CASE b64[i] = 43 -> 45 [] b64[i] = 47 -> 95
                                [] OTHER -> b64[i]
                 /\ url[i] \notin {43, 47, 61}
                 /\ url[i] \in AlphaNumeric \cup {45, 95}

\* [255, 255] is "//8=" in Base64 and came out as "__8"
C17_Witness ==
    /\ codec.pc = "toBase64Url"
    /\ codec.bytes = <<255, 255>>
    /\ toBase64(codec.bytes).value = <<47, 47, 56, 61>>
    /\ codec.encoded.value = <<95, 95, 56>>
\* the code units of the Base64 alphabet, and '=' with them
Base64Alphabet == AlphaNumeric \cup {43, 47}
\* a text without its ASCII whitespace (TAB, LF, FF, CR, SPACE)
WithoutWhitespace(text) ==
    LET Inked(c) == c \notin {9, 10, 12, 13, 32} IN SelectSeq(text, Inked)
\* what is wrong with a text as Base64, its whitespace and the padding '=' that
\* closes a multiple of 4 aside: a foreign character, a '=' elsewhere, or a
\* length of 1 mod 4
Malformed(text) ==
    LET core == WithoutWhitespace(text)
        pads == TrailingPads(core)
        body == SubSeq(core, 1, Len(core) - pads)
    IN \/ \E i \in 1..Len(core) : core[i] \notin Base64Alphabet \cup {61}
       \/ \E i \in 1..Len(body) : body[i] = 61
       \/ pads > 2
       \/ pads > 0 /\ Len(core) % 4 # 0
       \/ Len(body) % 4 = 1

\* C18 as stated: a text with a character outside the Base64 alphabet (and not
\* the padding character) is never decoded.
C18_ForeignCharacterAsStated ==
    (codec.pc = "fromBase64"
       /\ \E i \in 1..Len(codec.given) : codec.given[i] \notin Base64Alphabet \cup {61})
    => ~codec.decoded.ok

\* C18: fromBase64 ignores ASCII whitespace and does not ask for padding. It
\* fails with InvalidCharacterError and returns no bytes exactly when the text,
\* whitespace removed, has a character outside A-Z a-z 0-9 + / =, has '='
\* anywhere but as a final one or two that bring its length to a multiple of
\* 4, or has, that padding aside, a length of 1 mod 4.
C18_MalformedBase64Fails ==
    codec.pc = "fromBase64" =>
        /\ Malformed(codec.given) <=> ~codec.decoded.ok
        /\ ~codec.decoded.ok =>
              /\ codec.decoded.error = InvalidCharacterError
              /\ codec.decoded.value = <<>>

\* "%%%" was refused
C18_Witness ==
    /\ codec.pc = "fromBase64"
    /\ codec.given = <<37, 37, 37>>
    /\ codec.decoded = Fail(InvalidCharacterError, <<>>)
\* the URL-safe alphabet: A-Z a-z 0-9 - _
UrlSafeAlphabet == AlphaNumeric \cup {45, 95}

\* C19 as stated: a text with a character outside the URL-safe alphabet is never
\* decoded by fromBase64Url.
C19_ForeignCharacterAsStated ==
    (codec.pc = "fromBase64Url"
       /\ \E i \in 1..Len(codec.given) : codec.given[i] \notin UrlSafeAlphabet)
    => ~codec.decoded.ok

\* C19: fromBase64Url hands fromBase64 its input with '-' as '+' and '_' as '/',
\* followed by 0, 3, 2 or 1 '=' for an input length of 0, 1, 2 or 3 mod 4, so a
\* text whose length is a multiple of 4; it fails, with InvalidCharacterError
\* and no bytes, exactly when that text is one fromBase64 refuses. An input of
\* length 1 mod 4 always fails, and so does one with a character other than
\* A-Z a-z 0-9 - _ + / =  and ASCII whitespace.
C19_Base64UrlPadding ==
    codec.pc = "fromBase64Url" =>
        LET n == Len(codec.given)
            added == CASE n % 4 = 0 -> 0 [] n % 4 = 1 -> 3 [] n % 4 = 2 -> 2
                       [] n % 4 = 3 -> 1
        IN /\ Len(codec.handed) = n + added
           /\ Len(codec.handed) % 4 = 0
           /\ \A i \in 1..n :
                 codec.handed[i] = CASE codec.given[i] = 45 -> 43
                                     [] codec.given[i] = 95 -> 47
                                     [] OTHER -> codec.given[i]
           /\ \A i \in (n + 1)..(n + added) : codec.handed[i] = 61
           /\ Malformed(codec.handed) <=> ~codec.decoded.ok
           /\ ~codec.decoded.ok => codec.decoded = Fail(InvalidCharacterError, <<>>)
           /\ n % 4 = 1 => ~codec.decoded.ok
           /\ (\E i \in 1..n :
                  codec.given[i] \notin UrlSafeAlphabet \cup {43, 47, 61, 9, 10, 12, 13, 32})
              => ~codec.decoded.ok

\* "AQIDA", five characters, was handed on as "AQIDA===" and refused
C19_Witness ==
    /\ codec.pc = "fromBase64Url"
    /\ codec.given = <<65, 81, 73, 68, 65>>
    /\ codec.handed = <<65, 81, 73, 68, 65, 61, 61, 61>>
    /\ codec.decoded = Fail(InvalidCharacterError, <<>>)
\* C20: concatBytes(a, b) returns an array of length |a| + |b| whose first |a|
\* bytes are a and whose other bytes are b, for every a and b, empty ones on
\* either side included; a and b hold afterwards what they held before; and
\* concatBytes(concatBytes(a, b), c) equals concatBytes(a, concatBytes(b, c)).
C20_ConcatBytes ==
    codec.pc = "concatBytes" =>
        LET a == codec.operands[1]
            b == codec.operands[2]
            c == codec.operands[3]
            ab == codec.joined.ab
        IN /\ Len(ab) = Len(a) + Len(b)
           /\ SubSeq(ab, 1, Len(a)) = a
           /\ SubSeq(ab, Len(a) + 1, Len(ab)) = b
           /\ a = <<>> => ab = b
           /\ b = <<>> => ab = a
           /\ codec.after = codec.operands
           /\ codec.joined.left = codec.joined.right
           /\ Len(codec.joined.left) = Len(a) + Len(b) + Len(c)

\* [1], the empty array and [2, 3], joined both ways into [1, 2, 3]
C20_Witness ==
    /\ codec.pc = "concatBytes"
    /\ codec.operands = << <<1>>, <<>>, <<2, 3>> >>
    /\ codec.joined.ab = <<1>>
    /\ codec.joined.left = <<1, 2, 3>>
    /\ codec.joined.right = <<1, 2, 3>>
----------------------------------------------------------------------------
(* Properties of the UTF-8 helpers, checked under SpecCodec.               *)

\* C21: bytesToUtf8 given a value that is neither an ArrayBuffer nor a view of
\* one (a number, a boolean, a plain object, a string, null, undefined, an
\* array) fails with the TypeError that says it expects ArrayBuffer, before the
\* decoder is called, and returns no text; a byte sequence is not refused.
C21_InvalidInputType ==
    codec.pc = "bytesToUtf8" =>
        IF codec.arg.type \in {"ArrayBuffer", "Uint8Array", "Uint16Array", "DataView"}
        THEN codec.decoded.ok /\ codec.decoded.calls = <<"decode">>
        ELSE codec.decoded = Fail(InvalidInputType, <<>>)

\* a plain object was refused
C21_Witness ==
    /\ codec.pc = "bytesToUtf8"
    /\ codec.arg.type = "object"
    /\ ~codec.decoded.ok
    /\ codec.decoded.error = InvalidInputType
    /\ codec.decoded.calls = <<>>
\* Unicode text: every surrogate code unit is half of a pair
WellFormed(str) ==
    \A i \in 1..Len(str) :
        /\ IsHighSurrogate(str[i]) => (i < Len(str) /\ IsLowSurrogate(str[i + 1]))
        /\ IsLowSurrogate(str[i]) => (i > 1 /\ IsHighSurrogate(str[i - 1]))

\* C22: UTF-8 round trip. bytesToUtf8(utf8ToBytes(s)) succeeds and equals s for
\* every Unicode text s: the empty one, multi-byte scripts, characters outside
\* the BMP, and text that begins with U+FEFF.
C22_Utf8RoundTrip ==
    (codec.pc = "utf8ToBytes.bytesToUtf8" /\ WellFormed(codec.given))
    => (codec.decoded.ok /\ codec.decoded.value = codec.given)

----------------------------------------------------------------------------
(* Concurrent calls, checked under SpecTasks.                              *)

\* what task t's encrypt and decrypt return when no other call is in flight
AloneEncrypt(t) ==
    encrypt(SharedKey, tasks[t].plaintext, TaskEncryptOptions(tasks[t].iv), tasks[t].iv)
AloneDecrypt(t) ==
    decrypt(SharedKey, tasks[t].iv, tasks[t].encrypted.value.ciphertext,
            TaskDecryptOptions)

\* C23: whatever the order of the tasks' calls and completions, a task's encrypt
\* returns what it returns with no other call in flight, and its decrypt
\* returns the task's own plaintext.
C23_ConcurrentCallsIndependent ==
    \A t \in TaskIds :
        /\ tasks[t].pc \in {"encrypted", "decrypting", "done"}
               => tasks[t].encrypted = AloneEncrypt(t)
        /\ tasks[t].pc = "done"
               => /\ tasks[t].decrypted = AloneDecrypt(t)
                  /\ tasks[t].decrypted.ok
                  /\ tasks[t].decrypted.value = tasks[t].plaintext

\* every task is done, each called while another was pending, with plaintexts and
\* nonces that differ, the task that called last not the last one numbered
C23_Witness ==
    /\ \A t \in TaskIds : tasks[t].pc = "done" /\ tasks[t].overlapped
                           /\ tasks[t].decrypted.value = tasks[t].plaintext
    /\ \A t, u \in TaskIds : t # u => /\ tasks[t].plaintext # tasks[u].plaintext
                                      /\ tasks[t].iv # tasks[u].iv
    /\ lastCaller = 1

----------------------------------------------------------------------------
(* The packed message, checked under SpecWire.                             *)

Unpacked == wire.pc \in {"unpacked", "decrypting", "decrypted"}

\* C24: a packed message splits on '.' into exactly two fields, the iv's
\* encoding first; decoding them gives back the iv and the ciphertext, and
\* decrypting what was unpacked gives back the plaintext that was encrypted.
C24_WireFormatRoundTrip ==
    /\ Unpacked =>
          /\ Len(wire.fields) = 2
          /\ wire.fields[1] = toBase64Url(wire.iv).value
          /\ wire.fields[2] = toBase64Url(wire.ciphertext).value
          /\ wire.iv2 = Ok(wire.iv, <<>>)
          /\ wire.ct2 = Ok(wire.ciphertext, <<>>)
    /\ (wire.pc = "decrypted" /\ wire.origin = "encrypt") =>
          /\ wire.decrypted.ok
          /\ wire.decrypted.value = wire.plaintext

\* a message whose iv encodes with '-' or '_' and whose ciphertext encodes to a
\* length that needed padding was unpacked and decrypted to its plaintext
C24_Witness ==
    /\ wire.pc = "decrypted"
    /\ wire.origin = "encrypt"
    /\ \E i \in 1..Len(wire.fields[1]) : wire.fields[1][i] \in {45, 95}
    /\ Len(wire.fields[2]) % 4 # 0
    /\ wire.decrypted = Ok(wire.plaintext, <<"decrypt">>)
    /\ wire.plaintext # <<>>

----------------------------------------------------------------------------
(* Tag length handling, checked under SpecCipher.                          *)

\* a tagLength was given and is none of the documented five
UndocumentedTagLength(opts) ==
    opts.tagLength # Absent /\ opts.tagLength[1] \notin DocumentedTagLengths

\* the iv encrypt works with passes its length check
EncryptIvAdmitted == enc.opts.iv = Absent \/ Len(enc.opts.iv[1]) = 12

\* the provider's encrypt was the last thing the encrypt call did
EncryptReachedProvider ==
    enc.outcome.calls # <<>> /\ enc.outcome.calls[Len(enc.outcome.calls)] = "encrypt"

\* C25 as stated: a tagLength outside {96, 104, 112, 120, 128} raises no local
\* error, reaches the provider, and the caller sees the provider's failure.
C25_IllegalTagLengthAsStated ==
    (Encrypted /\ EncryptIvAdmitted /\ UndocumentedTagLength(enc.opts))
    => /\ EncryptReachedProvider
       /\ enc.outcome = Fail(OperationError, enc.outcome.calls)

\* C25, amended: tagLength is 128 when omitted and otherwise reaches the
\* provider as given, with no local check: the provider is invoked whatever the
\* value, a value it takes (32 and 64 besides the documented five) gives a tag
\* of that many bits, and for a value it refuses the caller sees the provider's
\* failure, never a local error.
C25_TagLengthForwarded ==
    /\ (Encrypted /\ EncryptIvAdmitted) =>
          /\ EncryptReachedProvider
          /\ IF TagLengthUsed(enc.opts) \in ProviderTagLengths
             THEN /\ enc.outcome.ok
                  /\ Len(enc.outcome.value.ciphertext)
                        = Len(enc.plaintext) + TagLengthUsed(enc.opts) \div 8
             ELSE enc.outcome = Fail(OperationError, enc.outcome.calls)
    /\ (Decrypted /\ Len(dec.iv) = 12) =>
          /\ dec.outcome.calls = <<"decrypt">>
          /\ ~dec.outcome.ok => dec.outcome.error = OperationError
          /\ TagLengthUsed(dec.opts) \notin ProviderTagLengths => ~dec.outcome.ok
          /\ (SameKey /\ SameIv /\ SameCiphertext /\ SameAad
                /\ TagLengthUsed(dec.opts) = TagLengthUsed(enc.opts))
             => Returned(enc.plaintext)

\* encrypt was given 64 and returned a ciphertext with an 8-byte tag; decrypt was
\* given 100 and failed with the provider's error after the provider was called
C25_Witness ==
    /\ Decrypted /\ SameKey /\ SameIv /\ SameAad
    /\ enc.opts.tagLength = Some(64)
    /\ enc.outcome.ok
    /\ Len(enc.outcome.value.ciphertext) = Len(enc.plaintext) + 8
    /\ dec.opts.tagLength = Some(100)
    /\ dec.outcome = Fail(OperationError, <<"decrypt">>)

\* the tag size in bytes of a call with a documented tagLength, or the default
TagBytes(opts) == TagLengthUsed(opts) \div 8

\* C26: ciphertext length. A successful encrypt with tagLength 96, 104, 112, 120
\* or 128 (128 when omitted) returns |plaintext| + tagLength/8 bytes: never
\* fewer than the tag, and exactly the tag for an empty plaintext.
C26_CiphertextLength ==
    (Encrypted /\ enc.outcome.ok /\ TagLengthUsed(enc.opts) \in DocumentedTagLengths)
    => /\ Len(enc.outcome.value.ciphertext) = Len(enc.plaintext) + TagBytes(enc.opts)
       /\ Len(enc.outcome.value.ciphertext) >= TagBytes(enc.opts)
       /\ enc.plaintext = <<>>
             => Len(enc.outcome.value.ciphertext) = TagBytes(enc.opts)

\* an empty plaintext under tagLength 104 gave 13 bytes
C26_Witness ==
    /\ Encrypted /\ enc.outcome.ok
    /\ enc.opts.tagLength = Some(104)
    /\ enc.plaintext = <<>>
    /\ Len(enc.outcome.value.ciphertext) = 13

----------------------------------------------------------------------------
(* Key derivation parameters, checked under SpecDerive.                    *)

\* call t has handed its parameters to the provider's deriveBits
ParamsHanded(t) == derivations[t].pc \in {"deriving", "done", "failed"}

\* C27: deriveKeyFromPassword asks the provider for PBKDF2 with SHA-256 over
\* the caller's salt bytes and iteration count, 150000 when none is given; what
\* it returns is 32 bytes; every call imports its own base key and runs its own
\* deriveBits, also when an identical call has already settled.
C27_DerivationParameters ==
    \A t \in DeriveCalls :
        LET d == derivations[t] IN
        /\ ParamsHanded(t) =>
              /\ d.params[1].name = "PBKDF2"
              /\ d.params[1].hash = "SHA-256"
              /\ d.params[1].salt = d.salt
              /\ d.params[1].iterations = IF d.given = Absent THEN 150000 ELSE d.given[1]
        /\ d.pc = "done" =>
              /\ d.outcome.ok
              /\ Len(d.outcome.value) = 32
        /\ d.pc \in {"done", "failed"} => d.outcome.calls = <<"importKey", "deriveBits">>

\* two identical calls, the caller's iterations 1 and a three-byte salt, have both
\* settled with 32 bytes after a provider derivation each
C27_Witness ==
    /\ \A t \in DeriveCalls :
          /\ derivations[t].pc = "done"
          /\ derivations[t].given = Some(1)
          /\ derivations[t].salt = <<1, 2, 3>>
          /\ derivations[t].params[1].iterations = 1
          /\ Len(derivations[t].outcome.value) = 32
          /\ derivations[t].outcome.calls = <<"importKey", "deriveBits">>
    /\ SamePassword("first", "second")

----------------------------------------------------------------------------
(* Buffers of an encrypt call, checked under SpecAlias.                    *)

\* the names through which the caller reaches buffer b
NamesOf(b) == { name \in WritableNames : BufferOf(name) = b }

\* C28: the returned ciphertext is in a buffer of its own, none of the
\* caller's; a caller buffer that was not written through one of its names
\* holds what it held at the call, whatever was written to the ciphertext; and
\* the ciphertext holds what encrypt returned unless it was itself written.
C28_CiphertextNotAliased ==
    /\ alias.pc # "start" =>
          \A b \in {"plaintext", "iv", "aad", "rawKey"} :
              NamesOf(b) \cap alias.written = {}
                  => alias.buffers[b] = alias.atCall[b]
    /\ alias.pc \in {"returned", "decrypting", "decrypted"} =>
          /\ alias.result.ciphertext \notin CallerBuffers
          /\ "result.ciphertext" \notin alias.written
                => alias.buffers[alias.result.ciphertext] = alias.returned

\* the test's case and its converse: the ciphertext's first byte was flipped and
\* the plaintext buffer holds what it held; decrypt of the flipped ciphertext
\* was refused
C28_Witness ==
    /\ alias.pc = "decrypted"
    /\ alias.written = {"result.ciphertext"}
    /\ alias.buffers["plaintext"] = alias.atCall["plaintext"]
    /\ alias.buffers["ct"] # alias.returned
    /\ Len(alias.returned) = Len(alias.atCall["plaintext"]) + 16
    /\ alias.decrypted = Fail(OperationError, <<"decrypt">>)

----------------------------------------------------------------------------
(* The salt of a pending derivation, checked under SpecDeriveRace.         *)

\* the caller wrote to call t's salt buffer after making the call
SaltWritten(t) == derivations[t].salt # derivations[t].saltAtCall

\* C29: a derivation uses the salt bytes as they were at the call: the
\* parameters handed to the provider hold them, and two settled calls with the
\* same password, iterations and salt bytes at the call return the same bytes,
\* whether or not the caller wrote to a salt buffer while its call was pending.
C29_SaltAsAtCall ==
    /\ \A t \in DeriveCalls :
          ParamsHanded(t) => derivations[t].params[1].salt = derivations[t].saltAtCall
    /\ \A t, u \in DeriveCalls :
          (Derived(t) /\ Derived(u) /\ SamePassword(t, u) /\ SameIterations(t, u)
             /\ derivations[t].saltAtCall = derivations[u].saltAtCall)
          => SameDerivedBytes(t, u)

----------------------------------------------------------------------------
(* Derived keys in use, checked under SpecChain.                           *)

\* an iteration count the provider takes: the default, or a positive one
LegalIterations(t) == derivations[t].given = Absent \/ derivations[t].given[1] >= 1

\* the derivation whose key link i was imported from
LinkOf(i) == ChainOrder[i]

\* C30: a derivation with a legal iteration count returns bytes that importKey
\* accepts; what is encrypted under the key imported from them decrypts under
\* that key, and also under the key imported from a second derivation with the
\* same password, salt and iterations.
C30_DerivedKeyAdmission ==
    /\ \A t \in DeriveCalls :
          (derivations[t].pc \in {"done", "failed"} /\ LegalIterations(t))
              => derivations[t].outcome.ok
    /\ \A i \in 1..Len(chain.imported) :
          /\ chain.imported[i].ok
          /\ chain.imported[i].error # InvalidKeyLength
    /\ chain.pc \in {"encrypted", "decrypting", "decrypted"} => chain.encrypted.ok
    /\ (/\ chain.pc = "decrypted"
        /\ \/ chain.link = 1
           \/ /\ SamePassword(LinkOf(1), LinkOf(2))
              /\ SameSalt(LinkOf(1), LinkOf(2))
              /\ SameIterations(LinkOf(1), LinkOf(2)))
          => chain.decrypted = Ok(chain.plaintext, <<"decrypt">>)

\* two derivations from the password U+1F600, a three-byte salt and the default
\* iterations: the second key decrypted what the first encrypted
C30_Witness ==
    /\ chain.pc = "decrypted"
    /\ chain.link = 2
    /\ \A t \in DeriveCalls :
          /\ derivations[t].password = <<55357, 56832>>
          /\ derivations[t].salt = <<1, 2, 3>>
          /\ derivations[t].given = Absent
          /\ Len(derivations[t].outcome.value) = 32
    /\ Len(chain.imported) = 2
    /\ chain.plaintext = <<0, 85>>
    /\ chain.decrypted = Ok(<<0, 85>>, <<"decrypt">>)

====
